---- MODULE Spec2Model ----
(***************************************************************************)
(* Model of the alphabet / digits tutor (src/main.py): the DataManager     *)
(* statistics store, its difficulty ranking, and the two game screens      *)
(* (GameScreen for letters, NumbersGameScreen for digits).                 *)
(*                                                                         *)
(* Python values are modelled as follows: a dict is a function (its key    *)
(* set is its DOMAIN, so `key in d` is `key \in DOMAIN d`); dicts built by  *)
(* the comprehensions of create_user iterate in alphabet order; None is    *)
(* the string "None"; a timestamp is the value of a logical clock; a       *)
(* success rate correct/attempts is the exact rational, compared by cross  *)
(* multiplication (the float quotient of two small counts orders the same  *)
(* way and is equal exactly when the rationals are equal).                 *)
(***************************************************************************)
EXTENDS Integers, Sequences, FiniteSets, TLC

(* ------------------------------ bounds -------------------------------- *)

\* Number of letters of 'ABC...Z' the model keeps (the program has 26).
NumLetters == 4

\* Number of digits of '0'..'9' the model keeps (the program has 10).
NumDigits == 4

\* Cap on the answers recorded in the whole collection by direct calls of
\* update_stats / update_stats_numbers (Spec).
MaxTotal == 2

\* Cap on the answers graded in one game session (GameSpec).
MaxAnswers == 2

\* Cap on the attempts of one symbol in the profiles RankSpec starts from.
MaxStat == 2

\* Cap on the save tasks waiting in the executor.
MaxPending == 3

\* Cap on the questions presented in one game session (GameSpec).
MaxQuestions == 2

\* Cap on the new_question timers pending on one screen.
MaxTimers == 2

\* Cap on the play_letter / play_number timers pending on one screen.
MaxPlayTimers == 1

\* Cap on the questions of one run of the console program.
MaxRounds == 2

\* Cap on the runs of the console program.
MaxRuns == 2

\* Letters of the console program's alphabet kept in the model (26 in the source).
NumConsoleLetters == 2

\* write failures in one run of the model
MaxFailures == 2

\* calls of MainWindow.start_game in one run of the model
MaxSessions == 3

\* letters and digits of the alphabets the targets are drawn from when the
\* hard pool is to be smaller than the alphabet
NumTargetLetters == 11

NumTargetDigits == 6

(* --------------------------- program constants ------------------------ *)

AllLetters == <<"A", "B", "C", "D", "E", "F", "G", "H", "I", "J", "K", "L", "M",
                "N", "O", "P", "Q", "R", "S", "T", "U", "V", "W", "X", "Y", "Z">>

AllDigits == <<"0", "1", "2", "3", "4", "5", "6", "7", "8", "9">>

\* list('ABCDEFGHIJKLMNOPQRSTUVWXYZ'), cut to the model's alphabet
all_letters == SubSeq(AllLetters, 1, NumLetters)

\* [str(i) for i in range(10)], cut to the model's alphabet
all_numbers == SubSeq(AllDigits, 1, NumDigits)

\* count passed by GameScreen.new_question to get_difficult_letters
HardLetters == 10

\* count passed by NumbersGameScreen.new_question to get_difficult_numbers
HardNumbers == 5

\* number of choice buttons of a game screen
NumChoices == 4

\* names typed in the new-user form
Names == {"Lea", "lea"}

\* counts the ranking is queried with in RankSpec
Counts == -1 .. (NumLetters + 1)

\* counts the ranking is queried with in Spec
QueryCounts == {1}

None == "None"

(* ------------------------------ helpers ------------------------------- *)

Range(s) == {s[i] : i \in 1..Len(s)}

Min(a, b) == IF a < b THEN a ELSE b

Max(a, b) == IF a > b THEN a ELSE b

\* Python's s[:n]
SliceTo(s, n) ==
    IF n >= 0 THEN SubSeq(s, 1, Min(n, Len(s)))
    ELSE SubSeq(s, 1, Max(Len(s) + n, 0))

\* Python's s.index(x) + 0-based
IndexOf(s, x) == (CHOOSE i \in 1..Len(s) : s[i] = x /\ \A j \in 1..(i-1) : s[j] # x) - 1

\* every outcome of random.sample(pool, k): the sequences of k distinct
\* positions of pool
Samples(pool, k) ==
    { [i \in 1..k |-> pool[f[i]]] :
        f \in {g \in [1..k -> 1..Len(pool)] : \A i, j \in 1..k : i # j => g[i] # g[j]} }

\* [x for x in s if x != v] for the first occurrence: s.remove(v)
Remove(s, v) ==
    LET i == IndexOf(s, v) + 1
    IN  SubSeq(s, 1, i - 1) \o SubSeq(s, i + 1, Len(s))

\* [x for x in s if x not in t]
NotIn(s, t) == SelectSeq(s, LAMBDA x : x \notin Range(t))

RECURSIVE SumOver(_, _)
SumOver(f, S) ==
    IF S = {} THEN 0
    ELSE LET x == CHOOSE y \in S : TRUE IN f[x] + SumOver(f, S \ {x})

(* ------------------------------- state -------------------------------- *)

VARIABLES
    data,      \* DataManager.data['users']: name -> profile
    now,       \* the clock read by datetime.now()
    pending,   \* save tasks submitted to DataManager.executor, not yet run
    file,      \* alphabet_data.json: absent, or the text it holds
    ret,       \* value returned by the last DataManager call
    last,      \* the last call of a DataManager method, with its arguments
    gs,        \* the GameScreen (letters)
    ngs,       \* the NumbersGameScreen (digits)
    voice,     \* what the voice engine is playing
    shown,     \* the current widget of MainWindow.stack
    graded,    \* per screen: how often the presented question was recorded
    asked,     \* number of questions presented since the screens were built
    fresh,     \* per screen: its question was presented since the screen was
               \* last shown and has not been answered
    executor,  \* DataManager.executor: its worker threads and the main thread's
               \* position in save_data_sync
    stderr,    \* what the process has written to its diagnostics (tracebacks)
    observers, \* DataManager.observers: the StatsScreen whose refresh_stats
               \* each callback is bound to
    screens,   \* the StatsScreen objects MainWindow has built
    console    \* the console program of characters.py

vars == <<data, now, pending, file, ret, last, gs, ngs, voice, shown, graded, asked,
          fresh, executor, stderr, observers, screens, console>>

\* what the DataManager methods and the game screens never touch
aside_vars == <<stderr, observers, screens, console>>

\* MainWindow before the first start_game: no StatsScreen built; stats_screen
\* is the one MainWindow.stats_screen refers to (0: none), deleted the ones
\* start_game has removed from the stack with deleteLater, notified the ones
\* a save has posted refresh_stats for
NoScreens == [stats_screen |-> 0, built |-> 0, deleted |-> {}, notified |-> {}]

\* MainWindow after the first start_game and the save its show_menu submitted
FirstScreens == [stats_screen |-> 1, built |-> 1, deleted |-> {}, notified |-> {1}]

\* the console program is not running
NotStarted == [pc |-> "off"]

screen_vars == <<gs, ngs, voice, shown, graded, asked, fresh>>

ZeroStat == [correct |-> 0, attempts |-> 0]

\* the profile create_user inserts
NewProfile(created) ==
    [created |-> created,
     stats |-> [l \in Range(all_letters) |-> ZeroStat],
     stats_numbers |-> [n \in Range(all_numbers) |-> ZeroStat],
     total_correct |-> 0,
     total_attempts |-> 0,
     total_correct_numbers |-> 0,
     total_attempts_numbers |-> 0]

\* d[key] = value on a dict
SetKey(d, key, value) ==
    [k \in DOMAIN d \cup {key} |-> IF k = key THEN value ELSE d[k]]

(* ------------------------- the data file (JSON) ----------------------- *)

\* A JSON text is modelled by its parse tree: a number, a string, an object
\* (its members in the order they are written) or an array. Two texts that are
\* no JSON at all are kept apart: the empty text a file holds once open(..., 'w')
\* has truncated it, and the bytes of two overlapping writes.
JNum(n) == [t |-> "num", v |-> n]

JStr(str) == [t |-> "str", v |-> str]

JObj(members) == [t |-> "obj", m |-> members]

JArr(elements) == [t |-> "arr", e |-> elements]

Member(key, value) == [k |-> key, v |-> value]

EmptyText == [t |-> "empty"]

GarbledText(len) == [t |-> "garbled", len |-> len]

\* the data file: absent, or holding a text
NoFile == [exists |-> FALSE]

FileWith(text) == [exists |-> TRUE, text |-> text]

\* the keys of a profile in the order create_user writes them
ProfileKeys ==
    <<"created", "stats", "stats_numbers", "total_correct", "total_attempts",
      "total_correct_numbers", "total_attempts_numbers">>

\* json.dump of {'correct': c, 'attempts': a}
DumpStat(stat) ==
    JObj(<<Member("correct", JNum(stat.correct)),
           Member("attempts", JNum(stat.attempts))>>)

\* the dump leaving out the symbols that were never attempted
DumpStats_AttemptedOnly(stats, order) ==
    LET keys == SelectSeq(order, LAMBDA k : k \in DOMAIN stats /\ stats[k].attempts > 0)
    IN  JObj([i \in 1..Len(keys) |-> Member(keys[i], DumpStat(stats[keys[i]]))])

\* json.dump of a per-symbol map, its keys in the order the comprehension of
\* create_user made them
DumpStats(stats, order) ==
    LET keys == SelectSeq(order, LAMBDA k : k \in DOMAIN stats)
    IN  JObj([i \in 1..Len(keys) |-> Member(keys[i], DumpStat(stats[keys[i]]))])

\* json.dump of one value of a profile; the ISO text of a timestamp is
\* identified with the clock value it prints
DumpField(user, key) ==
    CASE key = "created" -> JStr(user.created)
      [] key = "stats" -> DumpStats(user.stats, all_letters)
      [] key = "stats_numbers" -> DumpStats(user.stats_numbers, all_numbers)
      [] OTHER -> JNum(user[key])

\* json.dump of a profile
DumpProfile(user) ==
    LET keys == SelectSeq(ProfileKeys, LAMBDA k : k \in DOMAIN user)
    IN  JObj([i \in 1..Len(keys) |-> Member(keys[i], DumpField(user, keys[i]))])

\* the names of a collection in the order of the dict: the order of insertion,
\* which is the order of the creation timestamps
RECURSIVE InsertionOrder(_)
InsertionOrder(users) ==
    IF DOMAIN users = {} THEN << >>
    ELSE LET first == CHOOSE n \in DOMAIN users :
                         \A o \in DOMAIN users : users[n].created <= users[o].created
         IN  <<first>> \o InsertionOrder([o \in DOMAIN users \ {first} |-> users[o]])

\* json.dump(self.data, f, indent=2, ensure_ascii=False) for
\* self.data = {'users': users}
DumpData(users) ==
    LET names == InsertionOrder(users)
    IN  JObj(<<Member("users",
                 JObj([i \in 1..Len(names) |->
                         Member(names[i], DumpProfile(users[names[i]]))]))>>)

\* the keys of a JSON object
KeysOf(doc) == {doc.m[i].k : i \in 1..Len(doc.m)}

\* the value json.load keeps for a key of an object: the last member with it
ValueOf(doc, key) ==
    doc.m[CHOOSE i \in 1..Len(doc.m) :
            doc.m[i].k = key /\ \A j \in (i + 1)..Len(doc.m) : doc.m[j].k # key].v

\* what json.load makes of a parsed text: a dict for an object, a list for an
\* array, the number or the string otherwise
RECURSIVE Load(_)
Load(doc) ==
    CASE doc.t = "obj" -> [k \in KeysOf(doc) |-> Load(ValueOf(doc, k))]
      [] doc.t = "arr" -> [i \in 1..Len(doc.e) |-> Load(doc.e[i])]
      [] OTHER -> doc.v

\* the outcome of a call: a returned value or a raised exception
Returned(value) == [raised |-> FALSE, value |-> value]

Raised(error) == [raised |-> TRUE, error |-> error]

\* load_data: json.load of the file when it exists, {'users': {}} otherwise
load_data(f) ==
    IF f.exists
    THEN IF f.text.t \in {"empty", "garbled"}
         THEN Raised("JSONDecodeError")
         ELSE Returned(Load(f.text))
    ELSE Returned([users |-> << >>])

\* the length of the text of a collection, counted in profiles: every profile
\* prints at the same length while its counts have one digit
TextLen(text) ==
    CASE text.t = "empty" -> 0
      [] text.t = "garbled" -> text.len
      [] OTHER -> 1 + Len(ValueOf(text, "users").m)

\* the file after a writer that opened it with 'w' flushes text at offset 0:
\* a longer text written there since by another writer keeps its tail
Flushed(f, text) ==
    IF f.exists /\ TextLen(f.text) > TextLen(text)
    THEN FileWith(GarbledText(TextLen(f.text)))
    ELSE FileWith(text)

(* ----------------------------- DataManager ---------------------------- *)

\* save_data: submits save_task to the executor
save_data == pending' = pending + 1

\* notify_observers, called by save_task on its worker thread:
\* QTimer.singleShot(0, callback) for every callback of self.observers
notify_observers ==
    screens' = [screens EXCEPT !.notified = @ \cup {observers[i] : i \in 1..Len(observers)}]

\* ThreadPoolExecutor(max_workers=2)
MaxWorkers == 2

IdleWorker == [pc |-> "idle"]

\* the executor with every worker idle and no task handed out yet, the main
\* thread outside save_data_sync; closed is the number of the last task that
\* finished writing, tasks being numbered in the order of their submission
IdleExecutor ==
    [worker |-> [w \in 1..MaxWorkers |-> IdleWorker],
     taken |-> 0,
     closed |-> 0,
     main |-> "idle",
     failed |-> 0]

\* a worker takes the oldest queued save_task and enters its with block:
\* open(self.data_file, 'w') truncates the file
worker_open(w) ==
    /\ pending > 0
    /\ executor.worker[w].pc = "idle"
    /\ pending' = pending - 1
    /\ file' = FileWith(EmptyText)
    /\ executor' = [executor EXCEPT
                      !.worker[w] = [pc |-> "opened", task |-> executor.taken + 1],
                      !.taken = @ + 1]
    /\ last' = [op |-> "save_task"]
    /\ UNCHANGED <<data, now, ret, screen_vars, aside_vars>>

\* json.dump(self.data, f, ...) of the worker: the text of the collection as it
\* is now goes to the buffer of the worker's file object
worker_dump(w) ==
    /\ executor.worker[w].pc = "opened"
    /\ executor' = [executor EXCEPT
                      !.worker[w] = [pc |-> "dumped", task |-> @.task,
                                     buf |-> DumpData(data)]]
    /\ last' = [op |-> "save_task"]
    /\ UNCHANGED <<data, now, pending, file, ret, screen_vars, aside_vars>>

\* the worker leaves its with block: the buffer is flushed and the file closed
worker_close(w) ==
    /\ executor.worker[w].pc = "dumped"
    /\ file' = Flushed(file, executor.worker[w].buf)
    /\ executor' = [executor EXCEPT !.worker[w] = IdleWorker,
                                    !.closed = executor.worker[w].task]
    /\ notify_observers
    /\ last' = [op |-> "save_task"]
    /\ UNCHANGED <<data, now, pending, ret, screen_vars, stderr, observers, console>>

\* save_data_sync on the main thread (MainWindow.change_user, closeEvent):
\* open(self.data_file, 'w')
save_data_sync_open ==
    /\ executor.main = "idle"
    /\ executor' = [executor EXCEPT !.main = "opened"]
    /\ file' = FileWith(EmptyText)
    /\ last' = [op |-> "save_data_sync"]
    /\ UNCHANGED <<data, now, pending, ret, screen_vars, aside_vars>>

\* save_data_sync: json.dump and the end of the with block; the main thread is
\* the only one to change the collection, so the text is that of data
save_data_sync_close ==
    /\ executor.main = "opened"
    /\ executor' = [executor EXCEPT !.main = "idle"]
    /\ file' = Flushed(file, DumpData(data))
    /\ last' = [op |-> "save_data_sync"]
    /\ ret' = None
    /\ UNCHANGED <<data, now, pending, screen_vars, aside_vars>>

\* save_task run by a worker from open to close with no step of another thread
\* in between
save_task ==
    /\ pending > 0
    /\ pending' = pending - 1
    /\ file' = FileWith(DumpData(data))
    /\ notify_observers
    /\ last' = [op |-> "save_task"]
    /\ UNCHANGED <<data, now, ret, executor, screen_vars, stderr, observers, console>>

\* what a failed write leaves of the file: open raised (the file is as it
\* was) or json.dump / the flush at close raised (the file is truncated)
AfterFailedWrite(f) == {f, FileWith(EmptyText)}

\* a line of the process's diagnostics: the traceback of an exception that
\* left a handler of the given thread
Traceback(thread, error) == [thread |-> thread, error |-> error]

\* save_task on a worker when open or json.dump raises OSError: the exception
\* leaves save_task before notify_observers and is stored in the Future that
\* executor.submit returned, which save_data has dropped
save_task_raises ==
    /\ pending > 0
    /\ executor.failed < MaxFailures
    /\ pending' = pending - 1
    /\ file' \in AfterFailedWrite(file)
    /\ executor' = [executor EXCEPT !.failed = @ + 1]
    /\ last' = [op |-> "save_task"]
    /\ UNCHANGED <<data, now, ret, screen_vars, aside_vars>>

\* save_data_sync on the main thread when the write raises OSError: the
\* exception leaves change_user / closeEvent, and PySide6 prints the traceback
\* of an exception that leaves a slot or an event handler
save_data_sync_raises ==
    /\ executor.main = "idle"
    /\ Len(stderr) < MaxFailures
    /\ file' \in AfterFailedWrite(file)
    /\ stderr' = Append(stderr, Traceback("main", "OSError"))
    /\ ret' = Raised("OSError")
    /\ last' = [op |-> "save_data_sync"]
    /\ UNCHANGED <<data, now, pending, executor, screen_vars, observers, screens, console>>

\* the collection after create_user(name) took its insert branch
InsertUser(d, name, created) == SetKey(d, name, NewProfile(created))

\* create_user without the membership test: an existing profile is replaced
create_user_Overwrite(name) ==
    /\ last' = [op |-> "create_user", name |-> name]
    /\ data' = InsertUser(data, name, now)
    /\ now' = now + 1
    /\ pending' = pending + 1
    /\ ret' = (name \notin DOMAIN data)
    /\ UNCHANGED <<file, executor, screen_vars, aside_vars>>

create_user(name) ==
    /\ name \notin DOMAIN data => pending < MaxPending
    /\ last' = [op |-> "create_user", name |-> name]
    /\ IF name \notin DOMAIN data
       THEN /\ data' = InsertUser(data, name, now)
            /\ now' = now + 1
            /\ save_data
            /\ ret' = TRUE
       ELSE /\ ret' = FALSE
            /\ UNCHANGED <<data, now, pending>>
    /\ UNCHANGED <<file, executor, screen_vars, aside_vars>>

\* update_stats counting the attempt in the totals of both categories
StatsUpdated_BothTotals(user, letter, correct) ==
    LET s  == user.stats[letter]
        s1 == [s EXCEPT !.attempts = @ + 1]
        s2 == IF correct THEN [s1 EXCEPT !.correct = @ + 1] ELSE s1
    IN  [user EXCEPT !.stats[letter] = s2,
                     !.total_attempts = @ + 1,
                     !.total_attempts_numbers = @ + 1,
                     !.total_correct = IF correct THEN @ + 1 ELSE @]

\* update_stats with the total of correct answers left behind
StatsUpdated_NoTotalCorrect(user, letter, correct) ==
    LET s  == user.stats[letter]
        s1 == [s EXCEPT !.attempts = @ + 1]
        s2 == IF correct THEN [s1 EXCEPT !.correct = @ + 1] ELSE s1
    IN  [user EXCEPT !.stats[letter] = s2,
                     !.total_attempts = @ + 1]

\* the profile after update_stats(name, letter, correct)
StatsUpdated(user, letter, correct) ==
    LET s  == user.stats[letter]
        s1 == [s EXCEPT !.attempts = @ + 1]
        s2 == IF correct THEN [s1 EXCEPT !.correct = @ + 1] ELSE s1
    IN  [user EXCEPT !.stats[letter] = s2,
                     !.total_attempts = @ + 1,
                     !.total_correct = IF correct THEN @ + 1 ELSE @]

\* update_stats_numbers counting the attempt on the symbol but not in the total
StatsNumbersUpdated_NoTotal(user, number, correct) ==
    LET s  == user.stats_numbers[number]
        s1 == [s EXCEPT !.attempts = @ + 1]
        s2 == IF correct THEN [s1 EXCEPT !.correct = @ + 1] ELSE s1
    IN  [user EXCEPT !.stats_numbers[number] = s2,
                     !.total_correct_numbers = IF correct THEN @ + 1 ELSE @]

\* update_stats_numbers counting the attempt only for a wrong answer
StatsNumbersUpdated_AttemptInElse(user, number, correct) ==
    LET s  == user.stats_numbers[number]
        s2 == IF correct THEN [s EXCEPT !.correct = @ + 1]
                         ELSE [s EXCEPT !.attempts = @ + 1]
    IN  [user EXCEPT !.stats_numbers[number] = s2,
                     !.total_attempts_numbers = IF correct THEN @ ELSE @ + 1,
                     !.total_correct_numbers = IF correct THEN @ + 1 ELSE @]

\* the profile after update_stats_numbers(name, number, correct)
StatsNumbersUpdated(user, number, correct) ==
    LET s  == user.stats_numbers[number]
        s1 == [s EXCEPT !.attempts = @ + 1]
        s2 == IF correct THEN [s1 EXCEPT !.correct = @ + 1] ELSE s1
    IN  [user EXCEPT !.stats_numbers[number] = s2,
                     !.total_attempts_numbers = @ + 1,
                     !.total_correct_numbers = IF correct THEN @ + 1 ELSE @]

\* all answers recorded in the collection d
Recorded(d) ==
    SumOver([n \in DOMAIN d |-> d[n].total_attempts + d[n].total_attempts_numbers],
            DOMAIN d)

\* update_stats storing the answer under a symbol the profile does not have
\* yet (stats.setdefault(letter, ...)) where the subscript raises KeyError
DoUpdateStats_AddsKey(name, letter, correct) ==
    IF name \in DOMAIN data
    THEN LET user == data[name]
             known == IF letter \in DOMAIN user.stats THEN user
                      ELSE [user EXCEPT !.stats = SetKey(@, letter, ZeroStat)]
         IN  /\ data' = [data EXCEPT ![name] = StatsUpdated(known, letter, correct)]
             /\ save_data
    ELSE UNCHANGED <<data, pending>>

\* the data-store part of update_stats: a KeyError (unknown name or symbol)
\* is raised by the first subscript, before anything is changed
DoUpdateStats(name, letter, correct) ==
    IF name \in DOMAIN data /\ letter \in DOMAIN data[name].stats
    THEN /\ data' = [data EXCEPT ![name] = StatsUpdated(data[name], letter, correct)]
         /\ save_data
    ELSE UNCHANGED <<data, pending>>

DoUpdateStatsNumbers(name, number, correct) ==
    IF name \in DOMAIN data /\ number \in DOMAIN data[name].stats_numbers
    THEN /\ data' = [data EXCEPT ![name] = StatsNumbersUpdated(data[name], number, correct)]
         /\ save_data
    ELSE UNCHANGED <<data, pending>>

update_stats(name, letter, correct) ==
    /\ name \in DOMAIN data
    /\ Recorded(data) < MaxTotal
    /\ pending < MaxPending
    /\ DoUpdateStats(name, letter, correct)
    /\ last' = [op |-> "update_stats", name |-> name, symbol |-> letter,
                correct |-> correct]
    /\ ret' = None
    /\ UNCHANGED <<now, file, executor, screen_vars, aside_vars>>

update_stats_numbers(name, number, correct) ==
    /\ name \in DOMAIN data
    /\ Recorded(data) < MaxTotal
    /\ pending < MaxPending
    /\ DoUpdateStatsNumbers(name, number, correct)
    /\ last' = [op |-> "update_stats_numbers", name |-> name, symbol |-> number,
                correct |-> correct]
    /\ ret' = None
    /\ UNCHANGED <<now, file, executor, screen_vars, aside_vars>>

\* update_stats / update_stats_numbers called with a name or a symbol the
\* collection does not hold: self.data['users'][username] or
\* user['stats'][letter] raises KeyError and the call changes nothing
update_stats_KeyError(name, letter, correct) ==
    /\ ~(name \in DOMAIN data /\ letter \in DOMAIN data[name].stats)
    /\ pending < MaxPending
    /\ DoUpdateStats(name, letter, correct)
    /\ last' = [op |-> "update_stats", name |-> name, symbol |-> letter,
                correct |-> correct, raised |-> "KeyError"]
    /\ ret' = Raised("KeyError")
    /\ UNCHANGED <<now, file, executor, screen_vars, aside_vars>>

update_stats_numbers_KeyError(name, number, correct) ==
    /\ ~(name \in DOMAIN data /\ number \in DOMAIN data[name].stats_numbers)
    /\ pending < MaxPending
    /\ DoUpdateStatsNumbers(name, number, correct)
    /\ last' = [op |-> "update_stats_numbers", name |-> name, symbol |-> number,
                correct |-> correct, raised |-> "KeyError"]
    /\ ret' = Raised("KeyError")
    /\ UNCHANGED <<now, file, executor, screen_vars, aside_vars>>

\* get_all_users: list(self.data['users'].keys())
get_all_users ==
    /\ ret' = InsertionOrder(data)
    /\ last' = [op |-> "get_all_users"]
    /\ UNCHANGED <<data, now, pending, file, executor, screen_vars, aside_vars>>

\* get_user(name): self.data['users'].get(name)
get_user(name) ==
    /\ ret' = IF name \in DOMAIN data THEN data[name] ELSE None
    /\ last' = [op |-> "get_user", name |-> name]
    /\ UNCHANGED <<data, now, pending, file, executor, screen_vars, aside_vars>>

(* ------------------------- difficulty ranking ------------------------- *)

\* one entry of letter_scores / number_scores: (symbol, success_rate, attempts),
\* the rate kept as the pair correct / attempts
Score(symbol, stat) ==
    [symbol |-> symbol, correct |-> stat.correct, attempts |-> stat.attempts]

\* x[1] < y[1] for two success rates
RateLess(x, y) == x.correct * y.attempts < y.correct * x.attempts

RateEq(x, y) == x.correct * y.attempts = y.correct * x.attempts

\* the key without the minus sign: ties go to the symbol attempted less
KeyLess_AscendingAttempts(x, y) ==
    \/ RateLess(x, y)
    \/ RateEq(x, y) /\ x.attempts < y.attempts

\* key(x) < key(y) for key = lambda x: (x[1], -x[2])
KeyLess(x, y) ==
    \/ RateLess(x, y)
    \/ RateEq(x, y) /\ (0 - x.attempts) < (0 - y.attempts)

\* list.sort(key=...): stable, so an entry goes behind the entries whose key
\* is not greater than its own
RECURSIVE SortScores(_)
SortScores(s) ==
    IF Len(s) <= 1 THEN s
    ELSE LET front == SortScores(SubSeq(s, 1, Len(s) - 1))
             x     == s[Len(s)]
             k     == Cardinality({i \in 1..Len(front) : ~KeyLess(x, front[i])})
         IN  SubSeq(front, 1, k) \o <<x>> \o SubSeq(front, k + 1, Len(front))

\* the loop over stats.items(): the symbols with attempts > 0, in dict order
Scores(stats, order) ==
    LET kept == SelectSeq(order, LAMBDA l : l \in DOMAIN stats /\ stats[l].attempts > 0)
    IN  [i \in 1..Len(kept) |-> Score(kept[i], stats[kept[i]])]

\* the slice one entry short: letter_scores[:count - 1]
Hardest_OneShort(stats, order, count) ==
    LET top == SliceTo(SortScores(Scores(stats, order)), count - 1)
    IN  [i \in 1..Len(top) |-> top[i].symbol]

\* difficult = [l[0] for l in letter_scores[:count]] after the sort
Hardest(stats, order, count) ==
    LET top == SliceTo(SortScores(Scores(stats, order)), count)
    IN  [i \in 1..Len(top) |-> top[i].symbol]

\* the backfill sampling the whole alphabet instead of the remaining symbols
Backfilled_FromAlphabet(difficult, alphabet, count) ==
    IF Len(difficult) < count
    THEN {difficult \o s :
            s \in Samples(alphabet, Min(count - Len(difficult), Len(alphabet)))}
    ELSE {difficult}

\* the backfill sampling one symbol too few
Backfilled_OneFewer(difficult, alphabet, count) ==
    IF Len(difficult) < count
    THEN LET remaining == NotIn(alphabet, difficult)
         IN  {difficult \o s :
                s \in Samples(remaining,
                              Min(count - Len(difficult) - 1, Len(remaining)))}
    ELSE {difficult}

\* the lists the backfill can make of difficult
Backfilled(difficult, alphabet, count) ==
    IF Len(difficult) < count
    THEN LET remaining == NotIn(alphabet, difficult)
         IN  {difficult \o s :
                s \in Samples(remaining, Min(count - Len(difficult), Len(remaining)))}
    ELSE {difficult}

\* every list get_difficult_letters(name, count) can return for the profile user
get_difficult_letters(user, count) ==
    Backfilled(Hardest(user.stats, all_letters, count), all_letters, count)

\* the initialisation of get_difficult_numbers without its test: the digit
\* statistics are zeroed at every call
WithStatsNumbers_Always(user) ==
    SetKey(SetKey(SetKey(user,
        "stats_numbers", [n \in Range(all_numbers) |-> ZeroStat]),
        "total_correct_numbers", 0),
        "total_attempts_numbers", 0)

\* the profile after the missing-key initialisation of get_difficult_numbers
WithStatsNumbers(user) ==
    IF "stats_numbers" \notin DOMAIN user
    THEN SetKey(SetKey(SetKey(user,
            "stats_numbers", [n \in Range(all_numbers) |-> ZeroStat]),
            "total_correct_numbers", 0),
            "total_attempts_numbers", 0)
    ELSE user

\* every list get_difficult_numbers(name, count) can return for the profile user
get_difficult_numbers(user, count) ==
    Backfilled(Hardest(WithStatsNumbers(user).stats_numbers, all_numbers, count),
               all_numbers, count)

\* DataManager.get_difficult_letters(name, count) called
GetDifficultLetters(name, count) ==
    /\ name \in DOMAIN data
    /\ ret' \in get_difficult_letters(data[name], count)
    /\ last' = [op |-> "get_difficult_letters", name |-> name, count |-> count,
                ranked |-> Len(Hardest(data[name].stats, all_letters, count))]
    /\ UNCHANGED <<data, now, pending, file, executor, screen_vars, aside_vars>>

\* DataManager.get_difficult_numbers(name, count) called
GetDifficultNumbers(name, count) ==
    /\ name \in DOMAIN data
    /\ data' = [data EXCEPT ![name] = WithStatsNumbers(data[name])]
    /\ ret' \in get_difficult_numbers(data[name], count)
    /\ last' = [op |-> "get_difficult_numbers", name |-> name, count |-> count,
                ranked |-> Len(Hardest(WithStatsNumbers(data[name]).stats_numbers,
                                       all_numbers, count))]
    /\ UNCHANGED <<now, pending, file, executor, screen_vars, aside_vars>>

(* ---------------------------- game screens ---------------------------- *)

\* the mastery test with > in place of >=
Mastered_Above(stat) == stat.attempts > 0 /\ 10 * stat.correct > 7 * stat.attempts

\* stats['attempts'] > 0 and stats['correct'] / stats['attempts'] >= 0.7
\* (the float quotient and the float 0.7 compare as the fractions do for every
\* count below 2^50)
Mastered(stat) == stat.attempts > 0 /\ 10 * stat.correct >= 7 * stat.attempts

\* what GameScreen.update_score_display shows for the profile user
LettersDisplay(user) ==
    [correct |-> user.total_correct,
     total |-> user.total_attempts,
     learned |-> Cardinality({l \in DOMAIN user.stats : Mastered(user.stats[l])})]

\* the initialisations of NumbersGameScreen.update_score_display without their
\* tests: the digit totals are zeroed at every refresh
WithNumbers_Always(user) ==
    SetKey(SetKey(user, "total_correct_numbers", 0), "total_attempts_numbers", 0)

\* the profile after the missing-key initialisations of
\* NumbersGameScreen.update_score_display
WithNumbers(user) ==
    LET u1 == IF "total_correct_numbers" \notin DOMAIN user
              THEN SetKey(SetKey(user, "total_correct_numbers", 0),
                          "total_attempts_numbers", 0)
              ELSE user
    IN  IF "stats_numbers" \notin DOMAIN u1
        THEN SetKey(u1, "stats_numbers", [n \in Range(all_numbers) |-> ZeroStat])
        ELSE u1

\* what NumbersGameScreen.update_score_display shows for the profile user
NumbersDisplay(user) ==
    LET u == WithNumbers(user)
    IN  [correct |-> u.total_correct_numbers,
         total |-> u.total_attempts_numbers,
         learned |-> Cardinality({n \in DOMAIN u.stats_numbers :
                                     Mastered(u.stats_numbers[n])})]

\* the data-store part of GameScreen.update_score_display for the screen of
\* username: it reads the profile and writes the labels
LettersScoreDisplay(username) == UNCHANGED data

\* the data-store part of NumbersGameScreen.update_score_display
NumbersScoreDisplay(username) ==
    data' = [data EXCEPT ![username] = WithNumbers(@)]

\* GameScreen.update_score_display run for the screen of username
gs_update_score_display(username) ==
    /\ username \in DOMAIN data
    /\ LettersScoreDisplay(username)
    /\ ret' = None
    /\ last' = [op |-> "gs.update_score_display", name |-> username,
                display |-> LettersDisplay(data[username])]
    /\ UNCHANGED <<now, pending, file, executor, screen_vars, aside_vars>>

\* NumbersGameScreen.update_score_display run for the screen of username
ngs_update_score_display(username) ==
    /\ username \in DOMAIN data
    /\ NumbersScoreDisplay(username)
    /\ ret' = None
    /\ last' = [op |-> "ngs.update_score_display", name |-> username,
                display |-> NumbersDisplay(data[username])]
    /\ UNCHANGED <<now, pending, file, executor, screen_vars, aside_vars>>

\* what last holds after a handler of a game screen: the handlers return
\* nothing, and what they did is read off the screens
GuiEvent == [op |-> "event"]

\* what last holds after a handler of a game screen that an exception left
GuiRaised(error) == [op |-> "raised", error |-> error]

\* no game screen has been built yet
NoScreen == [username |-> None]

\* GameScreen.__init__
NewGameScreen(username) ==
    [username |-> username,
     current_letter |-> None,
     choices |-> <<>>,
     correct_answer |-> None,
     is_active |-> FALSE,
     enabled |-> TRUE,
     timers |-> 0,
     play_timers |-> 0]

\* NumbersGameScreen.__init__
NewNumbersGameScreen(username) ==
    [username |-> username,
     current_number |-> None,
     choices |-> <<>>,
     correct_answer |-> None,
     is_active |-> FALSE,
     enabled |-> TRUE,
     timers |-> 0,
     play_timers |-> 0]

\* every outcome of random.shuffle(s)
Shuffles(s) ==
    { [i \in 1..Len(s) |-> s[f[i]]] :
        f \in {g \in [1..Len(s) -> 1..Len(s)] :
                 \A i, j \in 1..Len(s) : i # j => g[i] # g[j]} }

\* the targets new_question can pick: random.choice(difficult) when
\* random.random() < 0.6, a uniform draw from the alphabet otherwise
Targets(pools, alphabet) ==
    UNION {Range(pool) : pool \in pools} \cup Range(alphabet)

\* new_question sampling the wrong symbols from the whole alphabet, the
\* all_letters.remove(...) line forgotten
ChoicesFor_NoRemove(current, alphabet) ==
    UNION { Shuffles(<<current>> \o wrong) :
              wrong \in Samples(alphabet, NumChoices - 1) }

\* the choices new_question can build around current: three wrong symbols
\* sampled from the alphabet without current, then the shuffle
ChoicesFor(current, alphabet) ==
    UNION { Shuffles(<<current>> \o wrong) :
              wrong \in Samples(Remove(alphabet, current), NumChoices - 1) }

\* what the voice engine holds after check_answer spoke one of its four
\* messages of praise: which one random.choice picked is not kept
Praise == "praise"

\* the choices new_question can build around each letter and each digit
LetterChoices == [c \in Range(all_letters) |-> ChoicesFor(c, all_letters)]

NumberChoices == [c \in Range(all_numbers) |-> ChoicesFor(c, all_numbers)]

\* GameScreen.showEvent, reached through MainWindow.show_letters_game
gs_showEvent ==
    /\ shown = "menu"
    /\ gs.username # None
    /\ shown' = "letters"
    /\ IF ~gs.is_active
       THEN /\ gs.timers < MaxTimers
            /\ gs' = [gs EXCEPT !.is_active = TRUE, !.timers = @ + 1]
            /\ LettersScoreDisplay(gs.username)
       ELSE UNCHANGED <<gs, data>>
    /\ ret' = None
    /\ last' = GuiEvent
    /\ UNCHANGED <<now, pending, file, executor, aside_vars, ngs, voice, graded, fresh, asked>>

\* MainWindow.show_menu from the letters game: save_data, then the stack hides
\* the game (GameScreen.hideEvent) and shows the menu (MenuScreen.showEvent)
gs_hideEvent ==
    /\ shown = "letters"
    /\ pending + 2 <= MaxPending
    /\ shown' = "menu"
    /\ gs' = [gs EXCEPT !.is_active = FALSE]
    /\ fresh' = [fresh EXCEPT !.letters = FALSE]
    /\ voice' = None
    /\ pending' = pending + 2
    /\ ret' = None
    /\ last' = GuiEvent
    /\ UNCHANGED <<data, now, file, executor, aside_vars, ngs, graded, asked>>

\* a new_question timer of the GameScreen expires
gs_new_question ==
    /\ gs.username # None
    /\ gs.timers > 0
    /\ IF ~gs.is_active
       THEN /\ gs' = [gs EXCEPT !.timers = @ - 1]
            /\ UNCHANGED <<graded, fresh, asked>>
       ELSE /\ gs.play_timers < MaxPlayTimers
            /\ asked < MaxQuestions
            /\ asked' = asked + 1
            /\ \E current \in Targets(get_difficult_letters(data[gs.username],
                                                             HardLetters),
                                      all_letters) :
                 \E choices \in LetterChoices[current] :
                    gs' = [gs EXCEPT !.timers = @ - 1,
                                     !.current_letter = current,
                                     !.choices = choices,
                                     !.correct_answer = IndexOf(choices, current),
                                     !.enabled = TRUE,
                                     !.play_timers = @ + 1]
            /\ graded' = [graded EXCEPT !.letters = 0]
            /\ fresh' = [fresh EXCEPT !.letters = TRUE]
    /\ ret' = None
    /\ last' = GuiEvent
    /\ UNCHANGED <<data, now, pending, file, executor, aside_vars, ngs, voice, shown>>

\* play_letter speaking whether or not the screen is active
gs_play_letter_NoActiveTest ==
    /\ gs.username # None
    /\ gs.play_timers > 0
    /\ gs' = [gs EXCEPT !.play_timers = @ - 1]
    /\ IF gs.current_letter # None
       THEN voice' = gs.current_letter
       ELSE UNCHANGED voice
    /\ ret' = None
    /\ last' = GuiEvent
    /\ UNCHANGED <<data, now, pending, file, executor, aside_vars, ngs, shown, graded, fresh, asked>>

\* a play_letter timer of the GameScreen expires
gs_play_letter ==
    /\ gs.username # None
    /\ gs.play_timers > 0
    /\ gs' = [gs EXCEPT !.play_timers = @ - 1]
    /\ IF gs.current_letter # None /\ gs.is_active
       THEN voice' = gs.current_letter
       ELSE UNCHANGED voice
    /\ ret' = None
    /\ last' = GuiEvent
    /\ UNCHANGED <<data, now, pending, file, executor, aside_vars, ngs, shown, graded, fresh, asked>>

\* check_answer without the test of is_active
gs_check_answer_NoGuard(choice_idx) ==
    /\ gs.username # None
    /\ ret' = None
    /\ IF gs.current_letter \notin DOMAIN data[gs.username].stats
       THEN /\ last' = GuiEvent
            /\ UNCHANGED <<data, pending, gs, voice, graded, fresh>>
       ELSE LET correct == (choice_idx = gs.correct_answer)
            IN  /\ Recorded(data) < MaxAnswers
                /\ pending < MaxPending
                /\ gs.timers < MaxTimers
                /\ DoUpdateStats(gs.username, gs.current_letter, correct)
                /\ IF correct
                   THEN voice' = Praise
                   ELSE UNCHANGED voice
                /\ gs' = [gs EXCEPT !.enabled = FALSE,
                                    !.timers = IF gs.is_active THEN @ + 1 ELSE @]
                /\ graded' = [graded EXCEPT !.letters = @ + 1]
                /\ fresh' = [fresh EXCEPT !.letters = FALSE]
                /\ last' = GuiEvent
    /\ UNCHANGED <<now, file, executor, aside_vars, ngs, shown, asked>>

\* check_answer without its last line, the QTimer.singleShot of new_question
gs_check_answer_NoTimer(choice_idx) ==
    /\ gs.username # None
    /\ ret' = None
    /\ IF ~gs.is_active
       THEN /\ last' = GuiEvent
            /\ UNCHANGED <<data, pending, gs, voice, graded, fresh>>
       ELSE IF gs.current_letter \notin DOMAIN data[gs.username].stats
       THEN /\ last' = GuiEvent
            /\ UNCHANGED <<data, pending, gs, voice, graded, fresh>>
       ELSE LET correct == (choice_idx = gs.correct_answer)
            IN  /\ Recorded(data) < MaxAnswers
                /\ pending < MaxPending
                /\ DoUpdateStats(gs.username, gs.current_letter, correct)
                /\ IF correct
                   THEN voice' = Praise
                   ELSE UNCHANGED voice
                /\ gs' = [gs EXCEPT !.enabled = FALSE]
                /\ graded' = [graded EXCEPT !.letters = @ + 1]
                /\ fresh' = [fresh EXCEPT !.letters = FALSE]
                /\ last' = GuiEvent
    /\ UNCHANGED <<now, file, executor, aside_vars, ngs, shown, asked>>

\* GameScreen.check_answer(choice_idx)
gs_check_answer(choice_idx) ==
    /\ gs.username # None
    /\ ret' = None
    /\ IF ~gs.is_active
       THEN /\ last' = GuiEvent
            /\ UNCHANGED <<data, pending, gs, voice, graded, fresh>>
       ELSE IF gs.current_letter \notin DOMAIN data[gs.username].stats
       THEN \* update_stats raises KeyError: the handler stops there
            /\ last' = GuiRaised("KeyError")
            /\ UNCHANGED <<data, pending, gs, voice, graded, fresh>>
       ELSE LET correct == (choice_idx = gs.correct_answer)
            IN  /\ Recorded(data) < MaxAnswers
                /\ pending < MaxPending
                /\ gs.timers < MaxTimers
                /\ DoUpdateStats(gs.username, gs.current_letter, correct)
                /\ IF correct
                   THEN voice' = Praise
                   ELSE UNCHANGED voice
                /\ gs' = [gs EXCEPT !.enabled = FALSE, !.timers = @ + 1]
                /\ graded' = [graded EXCEPT !.letters = @ + 1]
                /\ fresh' = [fresh EXCEPT !.letters = FALSE]
                /\ last' = GuiEvent
    /\ UNCHANGED <<now, file, executor, aside_vars, ngs, shown, asked>>

\* NumbersGameScreen.showEvent, reached through MainWindow.show_numbers_game
ngs_showEvent ==
    /\ shown = "menu"
    /\ ngs.username # None
    /\ shown' = "numbers"
    /\ IF ~ngs.is_active
       THEN /\ ngs.timers < MaxTimers
            /\ ngs' = [ngs EXCEPT !.is_active = TRUE, !.timers = @ + 1]
            /\ NumbersScoreDisplay(ngs.username)
       ELSE UNCHANGED <<ngs, data>>
    /\ ret' = None
    /\ last' = GuiEvent
    /\ UNCHANGED <<now, pending, file, executor, aside_vars, gs, voice, graded, fresh, asked>>

\* MainWindow.show_menu from the digits game: save_data, then
\* NumbersGameScreen.hideEvent and MenuScreen.showEvent
ngs_hideEvent ==
    /\ shown = "numbers"
    /\ pending + 2 <= MaxPending
    /\ shown' = "menu"
    /\ ngs' = [ngs EXCEPT !.is_active = FALSE]
    /\ fresh' = [fresh EXCEPT !.numbers = FALSE]
    /\ voice' = None
    /\ pending' = pending + 2
    /\ ret' = None
    /\ last' = GuiEvent
    /\ UNCHANGED <<data, now, file, executor, aside_vars, gs, graded, asked>>

\* a new_question timer of the NumbersGameScreen expires
ngs_new_question ==
    /\ ngs.username # None
    /\ ngs.timers > 0
    /\ IF ~ngs.is_active
       THEN /\ ngs' = [ngs EXCEPT !.timers = @ - 1]
            /\ UNCHANGED <<graded, fresh, asked, data>>
       ELSE /\ ngs.play_timers < MaxPlayTimers
            /\ asked < MaxQuestions
            /\ asked' = asked + 1
            /\ \E hard \in BOOLEAN :
                 /\ IF hard
                    THEN data' = [data EXCEPT ![ngs.username] = WithStatsNumbers(@)]
                    ELSE UNCHANGED data
                 /\ \E current \in
                        (IF hard
                         THEN UNION {Range(pool) :
                                pool \in get_difficult_numbers(data[ngs.username],
                                                               HardNumbers)}
                         ELSE Range(all_numbers)) :
                      \E choices \in NumberChoices[current] :
                         ngs' = [ngs EXCEPT !.timers = @ - 1,
                                            !.current_number = current,
                                            !.choices = choices,
                                            !.correct_answer = IndexOf(choices, current),
                                            !.enabled = TRUE,
                                            !.play_timers = @ + 1]
            /\ graded' = [graded EXCEPT !.numbers = 0]
            /\ fresh' = [fresh EXCEPT !.numbers = TRUE]
    /\ ret' = None
    /\ last' = GuiEvent
    /\ UNCHANGED <<now, pending, file, executor, aside_vars, gs, voice, shown>>

\* a play_number timer of the NumbersGameScreen expires
ngs_play_number ==
    /\ ngs.username # None
    /\ ngs.play_timers > 0
    /\ ngs' = [ngs EXCEPT !.play_timers = @ - 1]
    /\ IF ngs.current_number # None /\ ngs.is_active
       THEN voice' = ngs.current_number
       ELSE UNCHANGED voice
    /\ ret' = None
    /\ last' = GuiEvent
    /\ UNCHANGED <<data, now, pending, file, executor, aside_vars, gs, shown, graded, fresh, asked>>

\* NumbersGameScreen.check_answer(choice_idx)
ngs_check_answer(choice_idx) ==
    /\ ngs.username # None
    /\ ret' = None
    /\ IF ~ngs.is_active
       THEN /\ last' = GuiEvent
            /\ UNCHANGED <<data, pending, ngs, voice, graded, fresh>>
       ELSE IF ngs.current_number \notin DOMAIN data[ngs.username].stats_numbers
       THEN \* update_stats_numbers raises KeyError: the handler stops there
            /\ last' = GuiRaised("KeyError")
            /\ UNCHANGED <<data, pending, ngs, voice, graded, fresh>>
       ELSE LET correct == (choice_idx = ngs.correct_answer)
            IN  /\ Recorded(data) < MaxAnswers
                /\ pending < MaxPending
                /\ ngs.timers < MaxTimers
                /\ DoUpdateStatsNumbers(ngs.username, ngs.current_number, correct)
                /\ IF correct
                   THEN voice' = Praise
                   ELSE UNCHANGED voice
                /\ ngs' = [ngs EXCEPT !.enabled = FALSE, !.timers = @ + 1]
                /\ graded' = [graded EXCEPT !.numbers = @ + 1]
                /\ fresh' = [fresh EXCEPT !.numbers = FALSE]
                /\ last' = GuiEvent
    /\ UNCHANGED <<now, file, executor, aside_vars, gs, shown, asked>>

(* --------------------- the statistics store in use -------------------- *)

\* DataManager.__init__ with no data file, MainWindow showing the user list
Init ==
    /\ data = << >>
    /\ now = 0
    /\ pending = 0
    /\ file = NoFile
    /\ ret = None
    /\ last = [op |-> "init"]
    /\ gs = NoScreen
    /\ ngs = NoScreen
    /\ voice = None
    /\ shown = "selection"
    /\ graded = [letters |-> 0, numbers |-> 0]
    /\ asked = 0
    /\ fresh = [letters |-> FALSE, numbers |-> FALSE]
    /\ executor = IdleExecutor
    /\ stderr = << >>
    /\ observers = << >>
    /\ screens = NoScreens
    /\ console = NotStarted

Next ==
    \/ \E name \in Names : create_user(name)
    \/ \E name \in Names, l \in Range(all_letters), c \in BOOLEAN :
          update_stats(name, l, c)
    \/ \E name \in Names, n \in Range(all_numbers), c \in BOOLEAN :
          update_stats_numbers(name, n, c)
    \/ \E name \in Names, count \in QueryCounts : GetDifficultLetters(name, count)
    \/ \E name \in Names, count \in QueryCounts : GetDifficultNumbers(name, count)
    \/ \E name \in Names : gs_update_score_display(name)
    \/ \E name \in Names : ngs_update_score_display(name)
    \/ save_task

Spec == Init /\ [][Next]_vars

(* --------------------- every call of the DataManager ------------------ *)

\* symbols no profile has statistics for: a lower-case letter, a number of two
\* digits, and the current_letter of a screen that has asked no question
UnknownSymbols == {"a", "10", None}

\* names no profile was created under
UnknownNames == {"Tom"}

\* the symbols answers are recorded for in ApiSpec (every profile keeps the
\* statistics of the whole alphabet)
AnsweredLetters == {"A", "B"}

AnsweredDigits == {"0", "1"}

ApiNext ==
    \/ \E name \in Names : create_user(name)
    \/ \E name \in Names, l \in AnsweredLetters, c \in BOOLEAN :
          update_stats(name, l, c)
    \/ \E name \in Names, n \in AnsweredDigits, c \in BOOLEAN :
          update_stats_numbers(name, n, c)
    \/ \E name \in Names \cup UnknownNames, l \in UnknownSymbols \cup {"A"} :
          update_stats_KeyError(name, l, FALSE)
    \/ \E name \in Names \cup UnknownNames, n \in UnknownSymbols \cup {"0"} :
          update_stats_numbers_KeyError(name, n, FALSE)
    \/ \E name \in Names, count \in QueryCounts : GetDifficultLetters(name, count)
    \/ \E name \in Names, count \in QueryCounts : GetDifficultNumbers(name, count)
    \/ \E name \in Names \cup UnknownNames : get_user(name)
    \/ get_all_users
    \/ \E name \in Names : gs_update_score_display(name)
    \/ \E name \in Names : ngs_update_score_display(name)
    \/ save_task

ApiSpec == Init /\ [][ApiNext]_vars

(* ------------------- the console program (characters.py) -------------- *)

\* console holds the program's variables (datas, nom, points, chars, choise,
\* Lettre_aleatoire, lettre), the line it stands at (pc), the file profil.json
\* and, to state properties: the runs finished (runs), the questions shown
\* (asked) and the writes of the file (writes) in the current run, and the
\* letters ever answered right (known).

ConsoleAlphabet == <<"a", "b", "c", "d", "e", "f", "g", "h", "i", "j", "k", "l", "m",
                     "n", "o", "p", "q", "r", "s", "t", "u", "v", "w", "x", "y", "z">>

\* lettres = ['a', ..., 'z'], cut to the model's alphabet
lettres == SubSeq(ConsoleAlphabet, 1, NumConsoleLetters)

\* what the child types at "Quelle lettre est affichée ?"
LetterInputs == Range(lettres) \cup {"A", ""}

\* what is typed at "Taper 1 ou 2"
ChoiceInputs == {"1", "2", "", "2 "}

\* what is typed at "Quel est votre nom ?"
NameInputs == {"Lea", ""}

\* json.dump(data_updated, f, indent=4) of update_file
DumpProfil(datas) ==
    JObj(<<Member("nom", JStr(datas.nom)),
           Member("score", JNum(datas.score)),
           Member("alphabet",
                  JArr([i \in 1..Len(datas.alphabet) |-> JStr(datas.alphabet[i])]))>>)

\* check_file_exist: json.load of profil.json when it exists, the empty
\* profile otherwise
check_file_exist(profil) ==
    IF profil.exists THEN Load(profil.text)
    ELSE [nom |-> "", score |-> 0, alphabet |-> << >>]

\* the loop body appending every letter answered right, already known or not
Answered_NoMembershipTest(c, lettre) ==
    IF lettre = c.Lettre_aleatoire
    THEN [c EXCEPT !.lettre = lettre,
                   !.points = @ + 1,
                   !.chars = Append(@, lettre),
                   !.datas.alphabet = Append(@, lettre)]
    ELSE [c EXCEPT !.lettre = lettre]

\* lines 58-65: the answer is compared with the letter shown; chars is the
\* list datas['alphabet'] itself, so an append shows in both
Answered(c, lettre) ==
    IF lettre = c.Lettre_aleatoire
    THEN IF lettre \notin Range(c.chars)
         THEN [c EXCEPT !.lettre = lettre,
                        !.points = @ + 1,
                        !.chars = Append(@, lettre),
                        !.datas.alphabet = Append(@, lettre)]
         ELSE [c EXCEPT !.lettre = lettre, !.points = @ + 1]
    ELSE [c EXCEPT !.lettre = lettre]

\* the program before its first run, profil.json absent
ConsoleOff ==
    [pc |-> "off", profil |-> NoFile,
     datas |-> [nom |-> "", score |-> 0, alphabet |-> << >>],
     nom |-> "", points |-> 0, chars |-> << >>, choise |-> "1",
     Lettre_aleatoire |-> None, lettre |-> None,
     runs |-> 0, asked |-> 0, writes |-> 0, known |-> {}]

gui_vars == <<data, now, pending, file, ret, last, screen_vars, executor, stderr,
              observers, screens>>

\* lines 36-52: the program is started
console_start(name) ==
    /\ console.pc = "off"
    /\ console.runs < MaxRuns
    /\ LET datas == check_file_exist(console.profil)
       IN  console' = [console EXCEPT
                         !.pc = "while",
                         !.datas = datas,
                         !.points = datas.score,
                         !.choise = "1",
                         !.nom = IF datas.nom # "" THEN datas.nom ELSE name,
                         !.chars = datas.alphabet,
                         !.Lettre_aleatoire = None,
                         !.lettre = None,
                         !.asked = 0,
                         !.writes = 0]
    /\ UNCHANGED gui_vars

\* lines 53-57: the loop test, then random.choice(lettres) is shown and said
console_while ==
    /\ console.pc = "while"
    /\ IF console.choise # "2"
       THEN \E l \in Range(lettres) :
              console' = [console EXCEPT !.pc = "input_lettre",
                                         !.Lettre_aleatoire = l,
                                         !.asked = @ + 1]
       ELSE console' = [console EXCEPT !.pc = "exit"]
    /\ UNCHANGED gui_vars

\* lines 58-65: the answer typed at the prompt
console_input_lettre(lettre) ==
    /\ console.pc = "input_lettre"
    /\ console' = [Answered(console, lettre) EXCEPT
                     !.pc = "input_choise",
                     !.known = IF lettre = console.Lettre_aleatoire
                               THEN @ \cup {lettre} ELSE @]
    /\ UNCHANGED gui_vars

\* lines 67-71: the choice typed at the prompt
console_input_choise(choise) ==
    /\ console.pc = "input_choise"
    /\ choise # "2" => console.asked < MaxRounds
    /\ console' = [console EXCEPT !.pc = "while", !.choise = choise]
    /\ UNCHANGED gui_vars

\* lines 73-83: the profile is updated and written to profil.json
console_exit ==
    /\ console.pc = "exit"
    /\ LET datas == [console.datas EXCEPT !.nom = console.nom,
                                          !.score = console.points,
                                          !.alphabet = console.chars]
       IN  console' = [console EXCEPT !.pc = "off",
                                      !.datas = datas,
                                      !.profil = FileWith(DumpProfil(datas)),
                                      !.writes = @ + 1,
                                      !.runs = @ + 1]
    /\ UNCHANGED gui_vars

ConsoleInit ==
    /\ data = << >>
    /\ now = 0
    /\ pending = 0
    /\ file = NoFile
    /\ ret = None
    /\ last = [op |-> "init"]
    /\ gs = NoScreen
    /\ ngs = NoScreen
    /\ voice = None
    /\ shown = "selection"
    /\ graded = [letters |-> 0, numbers |-> 0]
    /\ asked = 0
    /\ fresh = [letters |-> FALSE, numbers |-> FALSE]
    /\ executor = IdleExecutor
    /\ stderr = << >>
    /\ observers = << >>
    /\ screens = NoScreens
    /\ console = ConsoleOff

ConsoleNext ==
    \/ \E name \in NameInputs : console_start(name)
    \/ console_while
    \/ \E lettre \in LetterInputs : console_input_lettre(lettre)
    \/ \E choise \in ChoiceInputs : console_input_choise(choise)
    \/ console_exit

ConsoleSpec == ConsoleInit /\ [][ConsoleNext]_vars

(* --------------------------- a game session --------------------------- *)

\* the collection holding the one profile p
OnlyLea(p) == [n \in {"Lea"} |-> p]

\* MainWindow after create_user("Lea"), the save, and start_game("Lea"): the
\* menu is shown and both game screens are built
GameInit ==
    /\ data = OnlyLea(NewProfile(0))
    /\ now = 1
    /\ pending = 0
    /\ file = FileWith(DumpData(data))
    /\ ret = None
    /\ last = [op |-> "init"]
    /\ gs = NewGameScreen("Lea")
    /\ ngs = NewNumbersGameScreen("Lea")
    /\ voice = None
    /\ shown = "menu"
    /\ graded = [letters |-> 0, numbers |-> 0]
    /\ asked = 0
    /\ fresh = [letters |-> FALSE, numbers |-> FALSE]
    /\ executor = IdleExecutor
    /\ stderr = << >>
    /\ observers = <<1>>
    /\ screens = FirstScreens
    /\ console = NotStarted

\* the session plays one of the two games: a game is opened only while the
\* screen of the other one is as it was built
GameNext ==
    \/ ngs = NewNumbersGameScreen(ngs.username) /\ gs_showEvent
    \/ gs_hideEvent
    \/ gs_new_question
    \/ gs_play_letter
    \/ \E idx \in 0..(NumChoices - 1) : gs_check_answer(idx)
    \/ gs = NewGameScreen(gs.username) /\ ngs_showEvent
    \/ ngs_hideEvent
    \/ ngs_new_question
    \/ ngs_play_number
    \/ \E idx \in 0..(NumChoices - 1) : ngs_check_answer(idx)
    \/ save_task

GameSpec == GameInit /\ [][GameNext]_vars

\* new_question on the runs of random.shuffle that leave the choices in the
\* order of the alphabet
gs_new_question_unshuffled ==
    /\ gs_new_question
    /\ gs'.choices \in {<<>>, all_letters}

ngs_new_question_unshuffled ==
    /\ ngs_new_question
    /\ ngs'.choices \in {<<>>, all_numbers}

LiveNext ==
    \/ ngs = NewNumbersGameScreen(ngs.username) /\ gs_showEvent
    \/ gs_hideEvent
    \/ gs_new_question_unshuffled
    \/ gs_play_letter
    \/ \E idx \in 0..(NumChoices - 1) : gs_check_answer(idx)
    \/ gs = NewGameScreen(gs.username) /\ ngs_showEvent
    \/ ngs_hideEvent
    \/ ngs_new_question_unshuffled
    \/ ngs_play_number
    \/ \E idx \in 0..(NumChoices - 1) : ngs_check_answer(idx)
    \/ save_task

\* the Qt event loop is running: a QTimer.singleShot that has been armed does
\* expire and its callback runs
TimerFairness ==
    /\ WF_vars(gs_new_question_unshuffled)
    /\ WF_vars(gs_play_letter)
    /\ WF_vars(ngs_new_question_unshuffled)
    /\ WF_vars(ngs_play_number)

\* the game session with its timers expiring
LiveSpec == GameInit /\ [][LiveNext]_vars /\ TimerFairness

(* ------------------------ the ranking on its own ---------------------- *)

\* the statistics one symbol can have after at most MaxStat answers
StatValues ==
    {st \in [correct : 0..MaxStat, attempts : 0..MaxStat] : st.correct <= st.attempts}

\* 'B' answered 10 times, once correctly; nothing else answered
OneWeakLetter ==
    [l \in Range(all_letters) |->
        IF l = "B" THEN [correct |-> 1, attempts |-> 10] ELSE ZeroStat]

\* 'A' and 'C' answered 4 times, twice correctly; nothing else answered
TwoEqualLetters ==
    [l \in Range(all_letters) |->
        IF l \in {"A", "C"} THEN [correct |-> 2, attempts |-> 4] ELSE ZeroStat]

\* a profile made by create_user and brought to the given statistics by
\* update_stats and update_stats_numbers
ProfileWith(stats, stats_numbers) ==
    [created |-> 0,
     stats |-> stats,
     stats_numbers |-> stats_numbers,
     total_correct |-> SumOver([l \in DOMAIN stats |-> stats[l].correct], DOMAIN stats),
     total_attempts |-> SumOver([l \in DOMAIN stats |-> stats[l].attempts], DOMAIN stats),
     total_correct_numbers |->
        SumOver([n \in DOMAIN stats_numbers |-> stats_numbers[n].correct],
                DOMAIN stats_numbers),
     total_attempts_numbers |->
        SumOver([n \in DOMAIN stats_numbers |-> stats_numbers[n].attempts],
                DOMAIN stats_numbers)]

NoLetterStats == [l \in Range(all_letters) |-> ZeroStat]

NoNumberStats == [n \in Range(all_numbers) |-> ZeroStat]

RankInit ==
    /\ \/ \E st \in [Range(all_letters) -> StatValues] :
             data = OnlyLea(ProfileWith(st, NoNumberStats))
       \/ \E st \in {OneWeakLetter, TwoEqualLetters} :
             data = OnlyLea(ProfileWith(st, NoNumberStats))
       \/ \E st \in [Range(all_numbers) -> StatValues] :
             /\ \E n \in DOMAIN st : st[n].attempts > 0
             /\ data = OnlyLea(ProfileWith(NoLetterStats, st))
    /\ now = 1
    /\ pending = 0
    /\ file = FileWith(DumpData(data))
    /\ ret = None
    /\ last = [op |-> "init"]
    /\ gs = NoScreen
    /\ ngs = NoScreen
    /\ voice = None
    /\ shown = "selection"
    /\ graded = [letters |-> 0, numbers |-> 0]
    /\ asked = 0
    /\ fresh = [letters |-> FALSE, numbers |-> FALSE]
    /\ executor = IdleExecutor
    /\ stderr = << >>
    /\ observers = << >>
    /\ screens = NoScreens
    /\ console = NotStarted

\* the ranking of a category is applied once to each profile drawn for it
RankNext ==
    /\ last.op = "init"
    /\ \/ \E name \in Names, count \in Counts :
             /\ name \in DOMAIN data
             /\ data[name].total_attempts_numbers = 0
             /\ GetDifficultLetters(name, count)
       \/ \E name \in Names, count \in Counts :
             /\ name \in DOMAIN data
             /\ data[name].total_attempts = 0
             /\ GetDifficultNumbers(name, count)

RankSpec == RankInit /\ [][RankNext]_vars

(* ------------------ the user list and the main window ----------------- *)

\* what can be typed in the name field, word by word: nothing, blanks, a
\* name, a name between blanks
Texts ==
    {<< >>, <<" ">>, <<" ", " ">>, <<"Lea">>, <<"lea">>, <<" ", "Lea">>,
     <<"lea", " ">>, <<" ", "lea", " ">>}

\* str.strip(): the text without its leading and trailing blanks
RECURSIVE Strip(_)
Strip(text) ==
    IF text = << >> THEN << >>
    ELSE IF Head(text) = " " THEN Strip(Tail(text))
    ELSE IF text[Len(text)] = " " THEN Strip(SubSeq(text, 1, Len(text) - 1))
    ELSE text

\* the string a text of at most one word stands for
StringOf(text) == IF text = << >> THEN "" ELSE text[1]

\* create_new_user passing the stripped text on without the test of name
create_new_user_Unchecked(text) ==
    /\ shown = "selection"
    /\ create_user(StringOf(Strip(text)))

\* UserSelectionScreen.create_new_user with text in the name field
create_new_user(text) ==
    /\ shown = "selection"
    /\ LET name == StringOf(Strip(text))
       IN  IF name # ""
           THEN create_user(name)
           ELSE \* QMessageBox.warning "Entre un prénom !"
                /\ last' = [op |-> "create_new_user", warned |-> TRUE]
                /\ ret' = None
                /\ UNCHANGED <<data, now, pending, file, executor, screen_vars,
                               aside_vars>>

\* MainWindow.start_game(username), emitted by select_user for a name of the
\* user list: the screens of the previous session leave the stack with
\* deleteLater, four new screens are built (StatsScreen.__init__ registers its
\* refresh_stats with add_observer) and show_menu submits a save
start_game(username) ==
    /\ shown = "selection"
    /\ username \in DOMAIN data
    /\ screens.built < MaxSessions
    /\ pending < MaxPending
    /\ LET id == screens.built + 1
       IN  /\ screens' = [screens EXCEPT
                            !.stats_screen = id,
                            !.built = id,
                            !.deleted = IF screens.stats_screen = 0
                                        THEN @
                                        ELSE @ \cup {screens.stats_screen}]
           /\ observers' = Append(observers, id)
    /\ gs' = NewGameScreen(username)
    /\ ngs' = NewNumbersGameScreen(username)
    /\ NumbersScoreDisplay(username)
    /\ voice' = None
    /\ shown' = "menu"
    /\ save_data
    /\ graded' = [letters |-> 0, numbers |-> 0]
    /\ asked' = 0
    /\ fresh' = [letters |-> FALSE, numbers |-> FALSE]
    /\ ret' = None
    /\ last' = [op |-> "start_game", name |-> username]
    /\ UNCHANGED <<now, file, executor, stderr, console>>

\* MainWindow.change_user from the menu: save_data_sync (no worker is inside
\* its write here), voice_engine.stop, back to the user list
change_user ==
    /\ shown = "menu"
    /\ executor.main = "idle"
    /\ file' = FileWith(DumpData(data))
    /\ voice' = None
    /\ shown' = "selection"
    /\ ret' = None
    /\ last' = [op |-> "change_user"]
    /\ UNCHANGED <<data, now, pending, executor, gs, ngs, graded, asked, fresh,
                   aside_vars>>

WindowNext ==
    \/ \E text \in Texts : create_new_user(text)
    \/ \E name \in Names : start_game(name)
    \/ change_user
    \/ save_task

WindowSpec == Init /\ [][WindowNext]_vars

(* ------------------------ the target of a question -------------------- *)

\* the alphabets cut just above the sizes of the hard pools
TargetLetters == SubSeq(AllLetters, 1, NumTargetLetters)

TargetDigits == SubSeq(AllDigits, 1, NumTargetDigits)

\* the ranker of DataManager on the alphabet given: every list
\* get_difficult_letters / get_difficult_numbers can return
Difficult(stats, alphabet, count) ==
    Backfilled(Hardest(stats, alphabet, count), alphabet, count)

\* the draw of a target that always takes the hard branch
DrawTarget_HardOnly(stats, alphabet, count) ==
    {r \in [hard : {TRUE}, difficult : Difficult(stats, alphabet, count),
            target : Range(alphabet)] : r.target \in Range(r.difficult)}

\* the outcomes of the first lines of new_question: random.random() < 0.6
\* and random.choice(difficult), or a uniform draw from the alphabet
DrawTarget(stats, alphabet, count) ==
    {r \in [hard : {TRUE}, difficult : Difficult(stats, alphabet, count),
            target : Range(alphabet)] : r.target \in Range(r.difficult)}
      \cup [hard : {FALSE}, difficult : {<< >>}, target : Range(alphabet)]

\* letter statistics with nine, ten or all eleven letters attempted, one of
\* the attempted letters better known than the others
TargetLetterStats ==
    {[l \in Range(TargetLetters) |->
         IF l = best THEN [correct |-> 1, attempts |-> 1]
         ELSE IF l \in unseen THEN ZeroStat
         ELSE [correct |-> 0, attempts |-> 1]] :
       best \in Range(TargetLetters),
       unseen \in {{}, {"A"}, {"K"}, {"C", "D"}}}

\* digit statistics: every digit unattempted or failed once, or every digit
\* attempted and one of them better known than the others
TargetDigitStats ==
    [Range(TargetDigits) -> {ZeroStat, [correct |-> 0, attempts |-> 1]}]
      \cup {[d \in Range(TargetDigits) |->
                IF d = best THEN [correct |-> 1, attempts |-> 1]
                ELSE [correct |-> 0, attempts |-> 1]] : best \in Range(TargetDigits)}

\* a stored profile on the larger alphabets; the data file plays no part in
\* the draw
TargetInit ==
    /\ \/ \E st \in TargetLetterStats :
             data = OnlyLea(ProfileWith(st, [n \in Range(TargetDigits) |-> ZeroStat]))
       \/ \E st \in TargetDigitStats :
             data = OnlyLea(ProfileWith([l \in Range(TargetLetters) |-> ZeroStat], st))
    /\ now = 1
    /\ pending = 0
    /\ file = NoFile
    /\ ret = None
    /\ last = [op |-> "init"]
    /\ gs = NoScreen
    /\ ngs = NoScreen
    /\ voice = None
    /\ shown = "selection"
    /\ graded = [letters |-> 0, numbers |-> 0]
    /\ asked = 0
    /\ fresh = [letters |-> FALSE, numbers |-> FALSE]
    /\ executor = IdleExecutor
    /\ stderr = << >>
    /\ observers = << >>
    /\ screens = NoScreens
    /\ console = NotStarted

\* GameScreen.new_question drawing current_letter for the profile of name
gs_draw_target(name) ==
    /\ name \in DOMAIN data
    /\ \E r \in DrawTarget(data[name].stats, TargetLetters, HardLetters) :
          /\ ret' = r.target
          /\ last' = [op |-> "gs.draw_target", name |-> name, hard |-> r.hard,
                      difficult |-> r.difficult]
    /\ UNCHANGED <<data, now, pending, file, executor, screen_vars, aside_vars>>

\* NumbersGameScreen.new_question drawing current_number
ngs_draw_target(name) ==
    /\ name \in DOMAIN data
    /\ \E r \in DrawTarget(data[name].stats_numbers, TargetDigits, HardNumbers) :
          /\ ret' = r.target
          /\ last' = [op |-> "ngs.draw_target", name |-> name, hard |-> r.hard,
                      difficult |-> r.difficult]
    /\ UNCHANGED <<data, now, pending, file, executor, screen_vars, aside_vars>>

\* one target is drawn for each profile: a letter if it has answers on
\* letters, a digit otherwise
TargetNext ==
    /\ last.op = "init"
    /\ \/ \E name \in Names :
             /\ name \in DOMAIN data
             /\ data[name].total_attempts > 0
             /\ gs_draw_target(name)
       \/ \E name \in Names :
             /\ name \in DOMAIN data
             /\ data[name].total_attempts = 0
             /\ ngs_draw_target(name)

TargetSpec == TargetInit /\ [][TargetNext]_vars

(* ---------------------- the score display on its own ------------------ *)

\* statistics of one symbol on both sides of the 0.7 mark and on it
DisplayStats ==
    {ZeroStat,
     [correct |-> 0, attempts |-> 1],
     [correct |-> 2, attempts |-> 3],
     [correct |-> 7, attempts |-> 10],
     [correct |-> 1, attempts |-> 1]}

DisplayInit ==
    /\ \/ \E st \in [Range(all_letters) -> DisplayStats] :
             data = OnlyLea(ProfileWith(st, NoNumberStats))
       \/ \E st \in [Range(all_numbers) -> DisplayStats] :
             data = OnlyLea(ProfileWith(NoLetterStats, st))
    /\ now = 1
    /\ pending = 0
    /\ file = FileWith(DumpData(data))
    /\ ret = None
    /\ last = [op |-> "init"]
    /\ gs = NoScreen
    /\ ngs = NoScreen
    /\ voice = None
    /\ shown = "selection"
    /\ graded = [letters |-> 0, numbers |-> 0]
    /\ asked = 0
    /\ fresh = [letters |-> FALSE, numbers |-> FALSE]
    /\ executor = IdleExecutor
    /\ stderr = << >>
    /\ observers = << >>
    /\ screens = NoScreens
    /\ console = NotStarted

\* each display is refreshed once for each profile drawn
DisplayNext ==
    /\ last.op = "init"
    /\ \/ \E name \in Names : gs_update_score_display(name)
       \/ \E name \in Names : ngs_update_score_display(name)

DisplaySpec == DisplayInit /\ [][DisplayNext]_vars

(* ---------------------- the saves and the executor -------------------- *)

\* the letters and digits answered in PersistSpec
PersistLetters == {"A"}

PersistDigits == {"0"}

\* the main thread creates users, records answers and saves synchronously
\* while the workers of the executor run the queued save tasks step by step
PersistNext ==
    \/ executor.main = "idle" /\ \E name \in Names : create_user(name)
    \/ executor.main = "idle" /\ \E name \in Names, l \in PersistLetters, c \in BOOLEAN :
          update_stats(name, l, c)
    \/ executor.main = "idle" /\ \E name \in Names, n \in PersistDigits, c \in BOOLEAN :
          update_stats_numbers(name, n, c)
    \/ save_data_sync_open
    \/ save_data_sync_close
    \/ \E w \in 1..MaxWorkers : worker_open(w)
    \/ \E w \in 1..MaxWorkers : worker_dump(w)
    \/ \E w \in 1..MaxWorkers : worker_close(w)

PersistSpec == Init /\ [][PersistNext]_vars

(* --------------------------- writes that fail -------------------------- *)

\* the store in use while a write can fail: the saves of the executor and
\* the synchronous save of change_user / closeEvent
FaultNext ==
    \/ executor.main = "idle" /\ \E name \in Names : create_user(name)
    \/ executor.main = "idle" /\ \E name \in Names, l \in PersistLetters, c \in BOOLEAN :
          update_stats(name, l, c)
    \/ executor.main = "idle" /\ \E name \in Names, n \in PersistDigits, c \in BOOLEAN :
          update_stats_numbers(name, n, c)
    \/ save_task
    \/ save_task_raises
    \/ save_data_sync_open
    \/ save_data_sync_close
    \/ save_data_sync_raises

FaultSpec == Init /\ [][FaultNext]_vars

(* ------------------------ saving and loading ------------------------- *)

\* DataManager.load_data called at the start of the process, the data file
\* being what the last run (or anything else) left
LoadData ==
    /\ executor.main = "idle"
    /\ ret' = load_data(file)
    /\ last' = [op |-> "load_data", after |-> last.op]
    /\ UNCHANGED <<data, now, pending, file, executor, screen_vars, aside_vars>>

\* texts that are JSON but no collection of profiles
OtherShapes ==
    {JArr(<< >>),
     JNum(0),
     JObj(<< >>),
     JObj(<<Member("users", JArr(<< >>))>>),
     JObj(<<Member("users", JObj(<<Member("Lea", JStr("profile"))>>))>>)}

\* the collections in memory LoadSpec starts from
SavedCollections ==
    {<< >>, InsertUser(OnlyLea(NewProfile(0)), "lea", 1)}
    \cup {OnlyLea(ProfileWith([l \in Range(all_letters) |->
                                 IF l = "A" THEN a ELSE IF l = "B" THEN b ELSE ZeroStat],
                              [n \in Range(all_numbers) |->
                                 IF n = "0" THEN d ELSE ZeroStat])) :
            a \in StatValues, b \in StatValues, d \in StatValues}

\* the data files LoadSpec starts from
StoredFiles ==
    {NoFile, FileWith(EmptyText), FileWith(GarbledText(1))}
    \cup {FileWith(text) : text \in OtherShapes}
    \cup {FileWith(DumpData(OnlyLea(NewProfile(0))))}

LoadInit ==
    /\ data \in SavedCollections
    /\ file \in StoredFiles
    /\ now = 2
    /\ pending = 0
    /\ ret = None
    /\ last = [op |-> "init"]
    /\ gs = NoScreen
    /\ ngs = NoScreen
    /\ voice = None
    /\ shown = "selection"
    /\ graded = [letters |-> 0, numbers |-> 0]
    /\ asked = 0
    /\ fresh = [letters |-> FALSE, numbers |-> FALSE]
    /\ executor = IdleExecutor
    /\ stderr = << >>
    /\ observers = << >>
    /\ screens = NoScreens
    /\ console = NotStarted

LoadNext ==
    \/ save_data_sync_open
    \/ save_data_sync_close
    \/ LoadData

LoadSpec == LoadInit /\ [][LoadNext]_vars

(* ============================== claims ================================ *)

IsUpdate(l) == l.op \in {"update_stats", "update_stats_numbers"}

\* the per-symbol map and the two totals an update of the given kind touches
SymbolStats(user, op) ==
    IF op = "update_stats" THEN user.stats ELSE user.stats_numbers

TotalAttempts(user, op) ==
    IF op = "update_stats" THEN user.total_attempts ELSE user.total_attempts_numbers

TotalCorrect(user, op) ==
    IF op = "update_stats" THEN user.total_correct ELSE user.total_correct_numbers

Gain(correct) == IF correct THEN 1 ELSE 0

\* C1: every update_stats / update_stats_numbers call on an existing user and
\* a symbol of the category adds exactly 1 to the symbol's attempts, adds 1 to
\* its correct count when the answer was correct and 0 otherwise, and moves the
\* category's totals by the same amounts in the same step.
C1_UpdateCountsOnce ==
    [][IsUpdate(last') =>
        LET op  == last'.op
            old == data[last'.name]
            new == data'[last'.name]
            sym == last'.symbol
        IN  /\ SymbolStats(new, op)[sym].attempts = SymbolStats(old, op)[sym].attempts + 1
            /\ SymbolStats(new, op)[sym].correct =
                  SymbolStats(old, op)[sym].correct + Gain(last'.correct)
            /\ TotalAttempts(new, op) = TotalAttempts(old, op) + 1
            /\ TotalCorrect(new, op) = TotalCorrect(old, op) + Gain(last'.correct)]_vars

\* a correct letter answer has just been recorded
C1_Witness ==
    /\ last.op = "update_stats"
    /\ last.correct
    /\ data[last.name].stats[last.symbol].correct = 1
    /\ data[last.name].total_correct = 1

\* C2: in every reachable state the four totals of every profile equal the sums
\* of the per-symbol counts of their category.
C2_TotalsAreSums ==
    \A n \in DOMAIN data :
        LET u == data[n]
        IN  /\ u.total_attempts =
                 SumOver([l \in DOMAIN u.stats |-> u.stats[l].attempts], DOMAIN u.stats)
            /\ u.total_correct =
                 SumOver([l \in DOMAIN u.stats |-> u.stats[l].correct], DOMAIN u.stats)
            /\ u.total_attempts_numbers =
                 SumOver([d \in DOMAIN u.stats_numbers |-> u.stats_numbers[d].attempts],
                         DOMAIN u.stats_numbers)
            /\ u.total_correct_numbers =
                 SumOver([d \in DOMAIN u.stats_numbers |-> u.stats_numbers[d].correct],
                         DOMAIN u.stats_numbers)

\* the digits score display is refreshed on a profile with a recorded digit answer
C2_Witness ==
    /\ last.op = "ngs.update_score_display"
    /\ data[last.name].total_attempts_numbers > 0
    /\ data[last.name].total_correct_numbers > 0

\* C3: in every reachable state every symbol statistic has
\* attempts >= correct >= 0.
C3_AttemptsBoundCorrect ==
    \A n \in DOMAIN data :
        /\ \A l \in DOMAIN data[n].stats :
              /\ data[n].stats[l].correct >= 0
              /\ data[n].stats[l].attempts >= data[n].stats[l].correct
        /\ \A d \in DOMAIN data[n].stats_numbers :
              /\ data[n].stats_numbers[d].correct >= 0
              /\ data[n].stats_numbers[d].attempts >= data[n].stats_numbers[d].correct

\* a correct digit answer has been recorded
C3_Witness ==
    \E n \in DOMAIN data : \E d \in DOMAIN data[n].stats_numbers :
        /\ data[n].stats_numbers[d].correct = 1
        /\ data[n].stats_numbers[d].attempts = 1

(* ----------------------- claims on the game screens ------------------- *)

\* C4: a presented question is recorded at most once, however often
\* check_answer is invoked before the next new_question: the second invocation
\* changes neither the symbol's statistics nor the totals.
C4_GradedOnce == graded.letters <= 1 /\ graded.numbers <= 1

\* the question a screen holds is well formed over the alphabet
QuestionOk(current, choices, correct_answer, alphabet) ==
    /\ Len(choices) = 4
    /\ \A i, j \in 1..Len(choices) : i # j => choices[i] # choices[j]
    /\ Range(choices) \subseteq alphabet
    /\ current \in alphabet
    /\ Cardinality({i \in 1..Len(choices) : choices[i] = current}) = 1
    /\ correct_answer \in 0..3
    /\ choices[correct_answer + 1] = current

\* C5: once new_question has run on an active screen, choices holds exactly 4
\* pairwise distinct symbols of the alphabet, the target occurs in it exactly
\* once, and correct_answer is the index of the target.
C5_QuestionWellFormed ==
    /\ gs.current_letter # None =>
          QuestionOk(gs.current_letter, gs.choices, gs.correct_answer,
                     Range(all_letters))
    /\ ngs.current_number # None =>
          QuestionOk(ngs.current_number, ngs.choices, ngs.correct_answer,
                     Range(all_numbers))

\* a question presented after an answer was recorded, its target on the last
\* button
C5_Witness ==
    /\ ngs.current_number # None
    /\ ngs.is_active
    /\ graded.numbers = 0
    /\ data[ngs.username].total_attempts_numbers > 0
    /\ ngs.correct_answer = 3

(* ------------------------- claims on the ranking ---------------------- *)

IsRanking(l) == l.op \in {"get_difficult_letters", "get_difficult_numbers"}

\* the statistics and the alphabet the last ranking call worked on
RankedStats ==
    IF last.op = "get_difficult_letters"
    THEN data[last.name].stats
    ELSE data[last.name].stats_numbers

RankedAlphabet ==
    IF last.op = "get_difficult_letters" THEN Range(all_letters) ELSE Range(all_numbers)

Attempted == {s \in RankedAlphabet : RankedStats[s].attempts > 0}

NoDuplicates(s) == \A i, j \in 1..Len(s) : i # j => s[i] # s[j]

\* C6: for every count >= 0 the result has no duplicate symbol and at most
\* count entries, and no symbol added by the backfill occurs in the ranked part.
C6_NoDuplicatesAtMostCount ==
    (IsRanking(last) /\ last.count >= 0) =>
        /\ NoDuplicates(ret)
        /\ Len(ret) <= last.count
        /\ \A i \in 1..last.ranked : \A j \in (last.ranked + 1)..Len(ret) :
              ret[i] # ret[j]

\* a result made of a ranked part and a backfilled part
C6_Witness ==
    /\ IsRanking(last)
    /\ last.count >= 0
    /\ last.ranked >= 1
    /\ Len(ret) >= last.ranked + 2

\* x ranks strictly before y: lower success rate, or equal rate and more attempts
Harder(x, y) ==
    \/ x.correct * y.attempts < y.correct * x.attempts
    \/ /\ x.correct * y.attempts = y.correct * x.attempts
       /\ x.attempts > y.attempts

\* C7: the attempted symbols of the result are in ascending order of success
\* rate, more attempts first among equal rates, and no attempted symbol left out
\* of the result ranks strictly before an attempted symbol of the result.
C7_RankedOrder ==
    IsRanking(last) =>
        /\ \A i, j \in 1..Len(ret) :
              (i < j /\ ret[i] \in Attempted /\ ret[j] \in Attempted)
                  => ~Harder(RankedStats[ret[j]], RankedStats[ret[i]])
        /\ \A out \in Attempted \ Range(ret) : \A in \in Attempted \cap Range(ret) :
              ~Harder(RankedStats[out], RankedStats[in])

\* two symbols of equal rate and different attempts are both ranked, in that
\* order, and an attempted symbol is left out
C7_Witness ==
    /\ IsRanking(last)
    /\ Len(ret) >= 2
    /\ ret[1] \in Attempted /\ ret[2] \in Attempted
    /\ RankedStats[ret[1]].correct * RankedStats[ret[2]].attempts =
          RankedStats[ret[2]].correct * RankedStats[ret[1]].attempts
    /\ RankedStats[ret[1]].attempts > RankedStats[ret[2]].attempts
    /\ Attempted \ Range(ret) # {}

\* C8: a symbol with zero attempts is in the result only when every attempted
\* symbol is; when at least count symbols have attempts the result holds only
\* attempted symbols ('B' alone at 1/10 and count 1 give ['B']; 'A' and 'C' at
\* 2/4 and count 2 give exactly 'A' and 'C').
C8_UnseenOnlyAfterAttempted ==
    IsRanking(last) =>
        /\ (Range(ret) \ Attempted # {}) => Attempted \subseteq Range(ret)
        /\ Cardinality(Attempted) >= last.count => Range(ret) \subseteq Attempted
        /\ (last.op = "get_difficult_letters" /\ RankedStats = OneWeakLetter
              /\ last.count = 1) => ret = <<"B">>
        /\ (last.op = "get_difficult_letters" /\ RankedStats = TwoEqualLetters
              /\ last.count = 2) => (Len(ret) = 2 /\ Range(ret) = {"A", "C"})

\* the ranking asked for the two hardest letters of the profile with 'A' and
\* 'C' at 2/4
C8_Witness ==
    /\ last.op = "get_difficult_letters"
    /\ RankedStats = TwoEqualLetters
    /\ last.count = 2
    /\ Len(ret) = 2

\* C9 as stated: for every count the result has exactly min(count, alphabet
\* size) symbols.
C9_ExactLengthAnyCount ==
    IsRanking(last) => Len(ret) = Min(last.count, Cardinality(RankedAlphabet))

\* C9 amended: for every count >= 0 the result has exactly min(count, alphabet
\* size) symbols, the backfill making up for the symbols without attempts.
C9_ExactLength ==
    (IsRanking(last) /\ last.count >= 0) =>
        Len(ret) = Min(last.count, Cardinality(RankedAlphabet))

\* a count above the size of the alphabet, with symbols backfilled
C9_Witness ==
    /\ IsRanking(last)
    /\ last.count > Cardinality(RankedAlphabet)
    /\ last.ranked >= 1
    /\ last.ranked < Len(ret)
    /\ Len(ret) = Cardinality(RankedAlphabet)

(* ------------------------- claims on create_user ---------------------- *)

\* C10: create_user(name) returns False and leaves the whole collection
\* unchanged when name exists; otherwise it returns True and inserts a profile
\* whose letter statistics, digit statistics and four totals are all zero,
\* leaving the other profiles as they were.
C10_CreateUser ==
    [][last'.op = "create_user" =>
        LET name == last'.name
        IN  IF name \in DOMAIN data
            THEN ret' = FALSE /\ data' = data
            ELSE /\ ret' = TRUE
                 /\ DOMAIN data' = DOMAIN data \cup {name}
                 /\ \A n \in DOMAIN data : data'[n] = data[n]
                 /\ DOMAIN data'[name].stats = Range(all_letters)
                 /\ DOMAIN data'[name].stats_numbers = Range(all_numbers)
                 /\ \A l \in Range(all_letters) : data'[name].stats[l] = ZeroStat
                 /\ \A d \in Range(all_numbers) : data'[name].stats_numbers[d] = ZeroStat
                 /\ data'[name].total_correct = 0
                 /\ data'[name].total_attempts = 0
                 /\ data'[name].total_correct_numbers = 0
                 /\ data'[name].total_attempts_numbers = 0]_vars

\* create_user has just refused a name whose profile holds a recorded answer
C10_Witness ==
    /\ last.op = "create_user"
    /\ ret = FALSE
    /\ last.name \in DOMAIN data
    /\ data[last.name].total_attempts > 0
    /\ data[last.name].created < now - 1

(* --------------------------- claims on the saves ---------------------- *)

\* the threads inside the with block of a save
Writers(e) ==
    {w \in 1..MaxWorkers : e.worker[w].pc # "idle"}

\* C14: the saves submitted by save_data are serialized: no two save tasks are
\* writing the data file at the same time, and the tasks finish their writes in
\* the order of their submission.
C14_SavesSerialized ==
    [][/\ Cardinality(Writers(executor')) <= 1
       /\ \A w \in 1..MaxWorkers :
             (executor.worker[w].pc = "dumped" /\ executor'.worker[w].pc = "idle")
                => executor.worker[w].task > executor.closed]_vars

\* every submitted save has completed and no thread is writing
Quiescent ==
    /\ pending = 0
    /\ Writers(executor) = {}
    /\ executor.main = "idle"
    /\ file.exists

\* C15: every step that changes the collection submits a save, and once every
\* submitted save has completed the data file holds the text of the collection
\* in memory.
C15_NoUpdateLost ==
    [][/\ data' # data => pending' = pending + 1
       /\ Quiescent' => file' = FileWith(DumpData(data'))]_vars

\* C16: load_data called after save_data_sync returns the collection that was
\* saved: the same user names and, for every user, the same per-symbol counts
\* and totals.
C16_SaveLoadRoundTrip ==
    (last.op = "load_data" /\ last.after = "save_data_sync")
        => ret = Returned([users |-> data])

\* a collection with recorded answers was saved and loaded again
C16_Witness ==
    /\ last.op = "load_data"
    /\ last.after = "save_data_sync"
    /\ ~ret.raised
    /\ \E n \in DOMAIN ret.value.users :
          /\ ret.value.users[n].total_attempts = 2
          /\ ret.value.users[n].total_correct = 1

\* a JSON object holding exactly the given keys
HasKeys(doc, keys) ==
    IF doc.t = "obj" THEN KeysOf(doc) = keys /\ Len(doc.m) = Cardinality(keys)
    ELSE FALSE

IsNum(doc) == doc.t = "num"

\* the text of a per-symbol map over the given symbols
WellFormedStats(doc, symbols) ==
    IF HasKeys(doc, symbols)
    THEN \A k \in symbols :
            IF HasKeys(ValueOf(doc, k), {"correct", "attempts"})
            THEN /\ IsNum(ValueOf(ValueOf(doc, k), "correct"))
                 /\ IsNum(ValueOf(ValueOf(doc, k), "attempts"))
            ELSE FALSE
    ELSE FALSE

\* the text of a profile
WellFormedProfile(doc) ==
    IF HasKeys(doc, Range(ProfileKeys))
    THEN /\ ValueOf(doc, "created").t = "str"
         /\ WellFormedStats(ValueOf(doc, "stats"), Range(all_letters))
         /\ WellFormedStats(ValueOf(doc, "stats_numbers"), Range(all_numbers))
         /\ \A k \in {"total_correct", "total_attempts", "total_correct_numbers",
                      "total_attempts_numbers"} : IsNum(ValueOf(doc, k))
    ELSE FALSE

\* the text of a collection: a mapping with a 'users' mapping of profiles
WellFormedText(text) ==
    IF HasKeys(text, {"users"})
    THEN IF ValueOf(text, "users").t = "obj"
         THEN \A i \in 1..Len(ValueOf(text, "users").m) :
                 WellFormedProfile(ValueOf(text, "users").m[i].v)
         ELSE FALSE
    ELSE FALSE

\* C20: load_data returns {'users': {}} when the data file is absent; when the
\* file is present it either raises an error or returns a collection of the
\* expected shape, never a value of another shape.
C20_LoadRejectsOtherShapes ==
    last.op = "load_data" =>
        IF file.exists
        THEN ret.raised \/ WellFormedText(file.text)
        ELSE ret = Returned([users |-> << >>])

(* ------------------- claims on what an answer changes ----------------- *)

\* the profile p has no recorded answer in the per-symbol map stats
Untouched(stats) == \A k \in DOMAIN stats : stats[k] = ZeroStat

\* C11: recording one answer for symbol s of user u changes only u's statistic
\* for s and the two totals of s's category: the other symbols of u, the other
\* category of u, its creation timestamp and every other profile stay as they
\* were; on a fresh profile one correct answer leaves s at 1/1, the totals at
\* 1/1 and every other symbol at 0/0.
C11_UpdateFrame ==
    [][IsUpdate(last') =>
        LET u   == last'.name
            s   == last'.symbol
            op  == last'.op
            old == data[u]
            new == data'[u]
        IN  /\ DOMAIN data' = DOMAIN data
            /\ \A n \in DOMAIN data \ {u} : data'[n] = data[n]
            /\ DOMAIN new = DOMAIN old
            /\ new.created = old.created
            /\ DOMAIN SymbolStats(new, op) = DOMAIN SymbolStats(old, op)
            /\ \A k \in DOMAIN SymbolStats(old, op) \ {s} :
                  SymbolStats(new, op)[k] = SymbolStats(old, op)[k]
            /\ IF op = "update_stats"
               THEN /\ new.stats_numbers = old.stats_numbers
                    /\ new.total_attempts_numbers = old.total_attempts_numbers
                    /\ new.total_correct_numbers = old.total_correct_numbers
               ELSE /\ new.stats = old.stats
                    /\ new.total_attempts = old.total_attempts
                    /\ new.total_correct = old.total_correct
            /\ (Untouched(old.stats) /\ Untouched(old.stats_numbers) /\ last'.correct)
                  => /\ SymbolStats(new, op)[s] = [correct |-> 1, attempts |-> 1]
                     /\ TotalAttempts(new, op) = 1
                     /\ TotalCorrect(new, op) = 1
                     /\ \A k \in DOMAIN SymbolStats(new, op) \ {s} :
                           SymbolStats(new, op)[k] = ZeroStat]_vars

\* the first answer of a user, a correct one on a letter, has just been
\* recorded while another user holds a recorded digit answer
C11_Witness ==
    /\ last.op = "update_stats"
    /\ last.correct
    /\ data[last.name].stats[last.symbol] = [correct |-> 1, attempts |-> 1]
    /\ data[last.name].total_attempts = 1
    /\ data[last.name].total_attempts_numbers = 0
    /\ \E other \in DOMAIN data \ {last.name} :
          data[other].total_attempts_numbers = 1

(* ------------------ claims on leaving a game screen ------------------- *)

\* what the collection holds for one category, user by user
LettersOf(d) ==
    [n \in DOMAIN d |-> <<d[n].stats, d[n].total_correct, d[n].total_attempts>>]

NumbersOf(d) ==
    [n \in DOMAIN d |->
        <<d[n].stats_numbers, d[n].total_correct_numbers, d[n].total_attempts_numbers>>]

\* C12: while a game screen is not active (before it is shown, after
\* hideEvent) no step, check_answer included, changes a statistic of its
\* category or arms a new_question timer of the screen, and while neither
\* screen is active no save is queued.
C12_InactiveScreenRecordsNothing ==
    [][/\ ~gs.is_active =>
             /\ LettersOf(data') = LettersOf(data)
             /\ ~gs'.is_active => gs'.timers <= gs.timers
       /\ ~ngs.is_active =>
             /\ NumbersOf(data') = NumbersOf(data)
             /\ ~ngs'.is_active => ngs'.timers <= ngs.timers
       /\ (~gs.is_active /\ ~ngs.is_active) => pending' <= pending]_vars

\* the letters screen was left with its second question on display, not
\* answered, its buttons enabled, and the saves have run
C12_Witness ==
    /\ ~gs.is_active
    /\ shown = "menu"
    /\ gs.current_letter # None
    /\ gs.enabled
    /\ graded.letters = 0
    /\ pending = 0
    /\ data[gs.username].total_attempts = 1

\* C13: the step that leaves a game screen for the menu stops the utterance
\* and leaves the data file holding the text of the collection.
C13_FlushedOnHide ==
    [][(shown # "menu" /\ shown' = "menu")
          => (voice' = None /\ file' = FileWith(DumpData(data')))]_vars

\* C18: a question presented since the screen was last shown is not replaced
\* by another question before it has been answered.
C18_NoStaleQuestion ==
    [][/\ ~(fresh.letters /\ asked' = asked + 1 /\ gs' # gs)
       /\ ~(fresh.numbers /\ asked' = asked + 1 /\ ngs' # ngs)]_vars

\* the question a screen holds
LetterQuestion(s) == <<s.current_letter, s.choices, s.correct_answer>>

NumberQuestion(s) == <<s.current_number, s.choices, s.correct_answer>>

\* C19: while a game screen is hidden no step changes its current symbol, its
\* choices or its correct_answer, and while both screens are hidden no step
\* makes the voice engine speak.
C19_HiddenScreenSilent ==
    [][/\ ~gs.is_active => LetterQuestion(gs') = LetterQuestion(gs)
       /\ ~ngs.is_active => NumberQuestion(ngs') = NumberQuestion(ngs)
       /\ (~gs.is_active /\ ~ngs.is_active) => voice' = voice]_vars

\* the new_question timer armed by an answer expired while the screen was
\* hidden: the answered question is still there and nothing is spoken
C19_Witness ==
    /\ ~gs.is_active
    /\ shown = "menu"
    /\ graded.letters = 1
    /\ gs.timers = 0
    /\ gs.play_timers = 0
    /\ gs.current_letter # None
    /\ voice = None

(* ----------------------- the question loop goes on --------------------- *)

\* C17: an answer graded on an active screen is eventually followed by a new
\* question on that screen, unless the user leaves the screen first (the
\* model presents at most MaxQuestions questions).
C17_GradedLeadsToQuestion ==
    /\ [](( gs.is_active /\ graded.letters > 0 /\ asked < MaxQuestions)
            => <>(graded.letters = 0 \/ ~gs.is_active))
    /\ [](( ngs.is_active /\ graded.numbers > 0 /\ asked < MaxQuestions)
            => <>(graded.numbers = 0 \/ ~ngs.is_active))

\* a second question is on display, buttons enabled, after the first one was
\* answered and the screen never left
C17_Witness ==
    /\ gs.is_active
    /\ asked = 2
    /\ graded.letters = 0
    /\ gs.enabled
    /\ gs.timers = 0
    /\ data[gs.username].total_attempts = 1

(* ------------------------ claims on failed writes ---------------------- *)

\* C21: every write of the data file that failed has left a line in the
\* diagnostics of the process: the failed saves of the executor are no more
\* than the tracebacks of its worker threads.
C21_FailureSurfaced ==
    executor.failed <= Cardinality({i \in 1..Len(stderr) : stderr[i].thread = "worker"})

(* ----------------------- claims on the progress bar -------------------- *)

\* the symbols of stats answered at least once with 7 right answers in 10 or
\* more
SeventyPercent(stats) ==
    {x \in DOMAIN stats :
        stats[x].attempts > 0 /\ 10 * stats[x].correct >= 7 * stats[x].attempts}

\* C22: the progress value set by update_score_display is the number of
\* symbols of the category with attempts > 0 and correct/attempts >= 0.7, and
\* lies between 0 and the size of the alphabet.
C22_ProgressIsMasteredCount ==
    /\ last.op = "gs.update_score_display" =>
          /\ last.display.learned = Cardinality(SeventyPercent(data[last.name].stats))
          /\ last.display.learned \in 0..Len(all_letters)
    /\ last.op = "ngs.update_score_display" =>
          /\ last.display.learned =
                Cardinality(SeventyPercent(data[last.name].stats_numbers))
          /\ last.display.learned \in 0..Len(all_numbers)

\* the letters display of a profile with a letter at 7/10, counted, and one at
\* 2/3, not counted
C22_Witness ==
    /\ last.op = "gs.update_score_display"
    /\ \E l \in Range(all_letters) : data[last.name].stats[l] = [correct |-> 7, attempts |-> 10]
    /\ \E l \in Range(all_letters) : data[last.name].stats[l] = [correct |-> 2, attempts |-> 3]
    /\ last.display.learned = 1

(* ------------------- claims on names and on observers ------------------ *)

\* C23: no profile has the empty name, and the creation of a name that is not
\* yet in the collection, whatever the case of the names that are, adds
\* exactly one profile under that name.
C23_NamesNonEmptyUnique ==
    /\ []("" \notin DOMAIN data)
    /\ [][(last'.op = "create_user" /\ last'.name \notin DOMAIN data)
             => /\ last'.name # ""
                /\ DOMAIN data' = DOMAIN data \cup {last'.name}
                /\ Cardinality(DOMAIN data') = Cardinality(DOMAIN data) + 1]_vars

\* 'Lea' and 'lea' are two profiles and a text of blanks has just been refused
C23_Witness ==
    /\ DOMAIN data = {"Lea", "lea"}
    /\ last.op = "create_new_user"
    /\ last.warned

\* C29: every callback of DataManager.observers belongs to the StatsScreen
\* MainWindow.stats_screen refers to, and a save posts refresh_stats for no
\* StatsScreen that start_game has removed.
C29_ObserversCurrent ==
    [][/\ \A i \in 1..Len(observers') : observers'[i] = screens'.stats_screen
       /\ \A id \in screens'.notified \ screens.notified : id \notin screens.deleted]_vars

(* -------------------- claims on the target of a question --------------- *)

\* the attempted symbols of stats, hardest first, are at least count
EnoughAttempted(stats, count) ==
    Cardinality({x \in DOMAIN stats : stats[x].attempts > 0}) >= count

\* C25: the target of a question is a symbol of the alphabet; on the hard
\* branch it is one of the K symbols the ranker returned (K = 10 for letters,
\* 5 for digits); and for every profile every symbol of the alphabet can be
\* drawn.
C25_TargetInAlphabet ==
    /\ last.op = "gs.draw_target" =>
          /\ ret \in Range(TargetLetters)
          /\ last.hard =>
                /\ Len(last.difficult) = HardLetters
                /\ ret \in Range(last.difficult)
                /\ Range(last.difficult) \subseteq Range(TargetLetters)
    /\ last.op = "ngs.draw_target" =>
          /\ ret \in Range(TargetDigits)
          /\ last.hard =>
                /\ Len(last.difficult) = HardNumbers
                /\ ret \in Range(last.difficult)
                /\ Range(last.difficult) \subseteq Range(TargetDigits)
    /\ last.op = "init" =>
          \A name \in DOMAIN data :
             /\ data[name].total_attempts > 0 =>
                   LET draws == DrawTarget(data[name].stats, TargetLetters, HardLetters)
                   IN  {r.target : r \in draws} = Range(TargetLetters)
             /\ data[name].total_attempts = 0 =>
                   LET draws == DrawTarget(data[name].stats_numbers, TargetDigits,
                                           HardNumbers)
                   IN  {r.target : r \in draws} = Range(TargetDigits)

\* the best known letter of a profile with every letter attempted has been
\* drawn, by the uniform branch: the hard pool of 10 leaves it out
C25_Witness ==
    /\ last.op = "gs.draw_target"
    /\ ~last.hard
    /\ EnoughAttempted(data[last.name].stats, NumTargetLetters)
    /\ data[last.name].stats[ret] = [correct |-> 1, attempts |-> 1]

(* ------------------- claims on answers without question ---------------- *)

\* C26: no handler of a game screen is left by a KeyError: check_answer never
\* hands update_stats / update_stats_numbers a symbol that is not in the
\* statistics of the profile.
C26_NeverUndefinedSymbol == ~(last.op = "raised" /\ last.error = "KeyError")

(* ------------------- claims on the keys and the counts ----------------- *)

\* C24: every profile of the collection has a letter statistic for exactly the
\* letters of the alphabet and a digit statistic for exactly the digits: no
\* call adds or removes a symbol key.
C24_SymbolKeysFixed ==
    \A name \in DOMAIN data :
        /\ DOMAIN data[name].stats = Range(all_letters)
        /\ DOMAIN data[name].stats_numbers = Range(all_numbers)

\* update_stats was called with a symbol that is no key of a profile whose
\* statistics have already been written to
C24_Witness ==
    /\ last.op = "update_stats"
    /\ "raised" \in DOMAIN last
    /\ last.name \in DOMAIN data
    /\ data[last.name].total_attempts > 0
    /\ data[last.name].total_attempts_numbers > 0

\* the calls of the DataManager that only read
QueryOps == {"get_difficult_letters", "get_difficult_numbers", "get_user",
             "get_all_users"}

\* C27: get_difficult_letters, get_difficult_numbers, get_user and
\* get_all_users leave the whole collection (every statistic, every total, the
\* set of users) as it was and submit no save.
C27_QueriesArePure ==
    [][last'.op \in QueryOps => data' = data /\ pending' = pending]_vars

\* get_difficult_numbers has just run on a profile with recorded digit answers
C27_Witness ==
    /\ last.op = "get_difficult_numbers"
    /\ data[last.name].total_attempts_numbers > 0
    /\ data[last.name].total_correct_numbers > 0

\* no count of the profile before is greater than in the profile after
NotDecreased(before, after) ==
    /\ \A l \in DOMAIN before.stats :
          /\ l \in DOMAIN after.stats
          /\ after.stats[l].attempts >= before.stats[l].attempts
          /\ after.stats[l].correct >= before.stats[l].correct
    /\ \A n \in DOMAIN before.stats_numbers :
          /\ n \in DOMAIN after.stats_numbers
          /\ after.stats_numbers[n].attempts >= before.stats_numbers[n].attempts
          /\ after.stats_numbers[n].correct >= before.stats_numbers[n].correct
    /\ after.total_attempts >= before.total_attempts
    /\ after.total_correct >= before.total_correct
    /\ after.total_attempts_numbers >= before.total_attempts_numbers
    /\ after.total_correct_numbers >= before.total_correct_numbers

\* C28: over every step no per-symbol attempts or correct count and no total
\* of a category decreases, and no profile leaves the collection.
C28_StatisticsMonotonic ==
    [][/\ DOMAIN data \subseteq DOMAIN data'
       /\ \A name \in DOMAIN data : NotDecreased(data[name], data'[name])]_vars

\* the numbers display was refreshed for a profile with recorded digit answers
\* while a second profile exists
C28_Witness ==
    /\ last.op = "ngs.update_score_display"
    /\ data[last.name].total_correct_numbers > 0
    /\ Cardinality(DOMAIN data) = 2

(* ---------------------- claims on the console program ------------------ *)

\* what holds of the console program in every state
ConsoleInv ==
    /\ \A i, j \in 1..Len(console.chars) : i # j => console.chars[i] # console.chars[j]
    /\ Range(console.chars) \subseteq console.known
    /\ console.pc = "exit" => console.asked >= 1 /\ console.choise = "2"
    /\ console.pc # "off" => console.writes = 0
    /\ console.pc = "off" /\ console.runs > 0 => console.writes = 1

\* what holds of every step of the console program
ConsoleStep ==
    /\ console.pc = "input_lettre" =>
          console'.points = console.points +
             (IF console'.lettre = console.Lettre_aleatoire THEN 1 ELSE 0)
    /\ console.pc \in {"while", "input_choise", "exit"} =>
          console'.points = console.points
    /\ console.pc = "while" => (console'.pc = "exit" <=> console.choise = "2")
    /\ console'.pc = "exit" => console.pc = "while"
    /\ (console'.profil # console.profil \/ console'.writes > console.writes) =>
          console.pc = "exit" /\ console'.pc = "off"

\* C30: in a run of the console program the score grows by exactly 1 at each
\* answer equal to the letter shown and changes at no other step, the list of
\* recognised letters has no duplicate and holds only letters answered right,
\* the loop is left only after a question was asked and exactly when the
\* choice typed is "2", and profil.json is written once, after the loop.
C30_ConsoleLoop == []ConsoleInv /\ [][ConsoleStep]_vars

\* two runs are over: three right answers, two of them for the same letter,
\* and the file holds the score and both letters
C30_Witness ==
    /\ console.pc = "off"
    /\ console.runs = 2
    /\ console.points = 3
    /\ Len(console.chars) = 2
    /\ console.profil.exists
    /\ Load(console.profil.text).score = 3
    /\ Len(Load(console.profil.text).alphabet) = 2

====
